---- MODULE Spec2Model ----
(***************************************************************************)
(* A model of the GSEA codec suite (LZ77, Huffman, RLE, LZW, ChaCha20,     *)
(* Salsa20, RC4), of the pipeline of process_file_operations and of the    *)
(* worker threads that run lz77_compress side by side.                     *)
(*                                                                         *)
(* Byte buffers are sequences of 0..255; C index i is TLA+ index i + 1.    *)
(* A call's locals live in a record (its frame); the one process-wide      *)
(* object, the static hash_table of lz77.c, is a variable of its own.      *)
(***************************************************************************)
EXTENDS Integers, Sequences, FiniteSets, TLC

VARIABLES
    lz77c,        \* per worker: the frame of its lz77_compress call
    lz77d,        \* per worker: the frame of its lz77_decompress call
    hash_table,   \* static uint16_t hash_table[HASH_TABLE_SIZE] (lz77.c:49)
    hash_owner,   \* history: which worker's call wrote each bucket last
    huff,         \* the frame of a Huffman compress / decompress round
    rle,          \* the frame of an RLE compress / decompress round
    lzw,          \* the frame of an LZW compress / decompress round
    cph,          \* the frame of a cipher encrypt / decrypt round
    pipe,         \* the frame of process_file_operations
    mem,          \* an entry point's call on the caller's output buffer
    dir           \* the frame of process_directory and its thread pool

lzVars == <<lz77c, lz77d, hash_table, hash_owner>>
vars ==
    <<lz77c, lz77d, hash_table, hash_owner, huff, rle, lzw, cph, pipe, mem, dir>>

(***************************************************************************)
(* Error codes (common.h)                                                  *)
(***************************************************************************)
GSEA_SUCCESS == 0
GSEA_ERROR_ARGS == -1
GSEA_ERROR_FILE == -2
GSEA_ERROR_MEMORY == -3
GSEA_ERROR_COMPRESSION == -4
GSEA_ERROR_ENCRYPTION == -5
GSEA_ERROR_THREAD == -6

(***************************************************************************)
(* Bounds of the model                                                     *)
(***************************************************************************)
NumSymbols == 2        \* distinct byte values the enumerated inputs use
Lz77MaxLen == 7        \* longest exhaustively enumerated LZ77 input
Lz77MaxPad == 1        \* long LZ77 inputs exceed the window by 1..Lz77MaxPad+1
HuffSymbols == 4       \* distinct byte values in the Huffman inputs
HuffMaxLen == 5        \* longest Huffman input
RleMaxLen == 6         \* longest enumerated RLE input
RleMaxSplits == 2      \* long RLE runs hold up to RleMaxSplits full runs of 255
LzwMaxLen == 6         \* longest enumerated LZW input
LzwMaxTail == 2        \* bytes after the repeated pair in a dictionary-filling input
CipherMaxLen == 2      \* longest enumerated plaintext
CipherMaxBlocks == 2   \* long plaintexts span up to CipherMaxBlocks keystream blocks
WorkerMaxLen == 5      \* longest input of a worker's concurrent lz77_compress
PipeMaxLen == 1        \* longest enumerated input of the pipeline
PipeMaxRun == 5        \* length of the two longer inputs of the pipeline
TamperMaxLen == 4      \* longest input whose container is damaged before decoding
RlePayloadMaxLen == 4  \* longest payload given to rle_decompress directly
RleDeclaredMax == 3    \* largest original size such a payload declares
StreamMaxTokens == 2   \* tokens of the streams given to lz77_decompress directly
StreamDeclaredMax == 4  \* largest original size such a stream declares
Lz77WrapPad == 2       \* inputs past position 65,535 have 65,554..65,554+Lz77WrapPad bytes
PoolMaxFiles == 2      \* tasks the main thread adds to the pool of SpecPool at most
PoolMaxExtra == 2      \* tasks a second thread adds to the pool at most
LzwGivenMaxLen == 3    \* longest enumerated code sequence given to lzw_decompress
LzwGivenExtra == 2     \* codes from 256 up that the given sequences use: 256..258
LzwGivenMaxSize == 3   \* largest original_size declared with a given sequence
DirMaxFiles == 3       \* files list_directory returns at most
CounterMaxBlocks == 2  \* keystream blocks a chacha20_crypt call near the counter's end needs
MemLiterals == 350     \* longest run of literal tokens that fits lz77_compress's first buffer

Workers == {1, 2}

\* Byte values of the enumerated inputs: 0, 85, 170, 255, ...
Alphabet == {(i * 85) % 256 : i \in 0..(NumSymbols - 1)}

SeqsUpTo(S, n) == UNION {[1..k -> S] : k \in 0..n}
NonEmptySeqsUpTo(S, n) == UNION {[1..k -> S] : k \in 1..n}

Rep(v, n) == [i \in 1..n |-> v]

\* sequencing: e is computed first, then Rest on its value
Then(e, Rest(_)) == CHOOSE r \in {Rest(v) : v \in {e}} : TRUE

At(s, i) == s[i + 1]

Min(a, b) == IF a < b THEN a ELSE b

(***************************************************************************)
(* LZ77 (compression/lz77.c)                                               *)
(***************************************************************************)
WINDOW_SIZE == 4096
LOOKAHEAD_SIZE == 18
MIN_MATCH_LENGTH == 3
HASH_TABLE_SIZE == 65536
HASH_MASK == HASH_TABLE_SIZE - 1

\* x & HASH_MASK, the mask being 2^16 - 1
AndHashMask(x) == x % (HASH_MASK + 1)

\* (uint16_t)x
U16(x) == x % 65536

\* ((uint32_t)p[0] << 16) | ((uint32_t)p[1] << 8) | p[2]
compute_hash(data, p) ==
    At(data, p) * 65536 + At(data, p + 1) * 256 + At(data, p + 2)

\* memset(hash_table, 0, sizeof(hash_table)): the table is kept as the
\* buckets written since, every other bucket reading 0
ZeroedTable == [h \in {} |-> 0]
HashRead(ht, h) == IF h \in DOMAIN ht THEN ht[h] ELSE 0
HashWrite(ht, h, v) == [x \in (DOMAIN ht) \cup {h} |-> IF x = h THEN v ELSE ht[x]]

\* the while loop of find_longest_match that extends a match
RECURSIVE ExtendMatch(_, _, _, _, _)
ExtendMatch(data, candidate, pos, lookahead_end, match_len) ==
    IF pos + match_len < lookahead_end
       /\ At(data, candidate + match_len) = At(data, pos + match_len)
    THEN ExtendMatch(data, candidate, pos, lookahead_end, match_len + 1)
    ELSE match_len

\* faulty variant: a candidate inside the window is taken without
\* comparing the bytes it points at
FindMatchUnverified(data, pos, data_size, candidate) ==
    LET window_start == IF pos > WINDOW_SIZE THEN pos - WINDOW_SIZE ELSE 0
        lookahead_end == Min(pos + LOOKAHEAD_SIZE, data_size)
    IN  IF candidate >= window_start /\ candidate < pos
        THEN [best_length |-> ExtendMatch(data, candidate, pos, lookahead_end, 3),
              best_offset |-> pos - candidate]
        ELSE [best_length |-> 0, best_offset |-> 0]

\* find_longest_match up to and including its read of the bucket: the
\* match it finds given the candidate the bucket holds (lines 59-86)
FindMatch(data, pos, data_size, candidate) ==
    LET window_start == IF pos > WINDOW_SIZE THEN pos - WINDOW_SIZE ELSE 0
        lookahead_end == Min(pos + LOOKAHEAD_SIZE, data_size)
    IN  IF candidate >= window_start /\ candidate < pos
           /\ At(data, candidate) = At(data, pos)
           /\ At(data, candidate + 1) = At(data, pos + 1)
           /\ At(data, candidate + 2) = At(data, pos + 2)
        THEN [best_length |-> ExtendMatch(data, candidate, pos, lookahead_end, 3),
              best_offset |-> pos - candidate]
        ELSE [best_length |-> 0, best_offset |-> 0]

\* write_token: offset big-endian, length, next_char
TokenBytes(offset, length, next_char) ==
    <<(offset \div 256) % 256, offset % 256, length, next_char>>

\* the header loop of lz77_compress: orig_size as 8 bytes, big-endian
RECURSIVE BigEndian(_, _)
BigEndian(v, n) ==
    IF n = 0 THEN <<>> ELSE Append(BigEndian(v \div 256, n - 1), v % 256)

\* a size of 2^24 or more is read as 2^24: every buffer here is shorter
\* than that, and the code only compares such a size with buffer lengths
\* and counts up towards it
SizeCeiling == 2 ^ 24

\* the header loop of lz77_decompress: n >= 3 bytes, big-endian
ReadBigEndian(bytes, n) ==
    IF \E k \in 1..(n - 3) : bytes[k] # 0 THEN SizeCeiling
    ELSE (65536 * bytes[n - 2]) + (256 * bytes[n - 1]) + bytes[n]

IdleCompress ==
    [pc |-> "idle", input |-> <<>>, pos |-> 0, output |-> <<>>,
     output_null |-> TRUE, hash |-> 0, probed |-> FALSE,
     best_offset |-> 0, best_length |-> 0, result |-> GSEA_SUCCESS]

IdleDecompress ==
    [pc |-> "idle", input |-> <<>>, pos |-> 0, output |-> <<>>,
     output_null |-> TRUE, orig_size |-> 0, result |-> GSEA_SUCCESS]

\* history of the table's writers: the call that did the last memset, and
\* the call that wrote each bucket since
NoOwner == [memset_by |-> 0, written |-> [h \in {} |-> 0]]
BucketOwner(ow, h) == IF h \in DOMAIN ow.written THEN ow.written[h] ELSE ow.memset_by

\* lz77_compress from its entry to the first loop test (lines 125-151):
\* the frame it leaves
Lz77BeginFrame(f) ==
    IF Len(f.input) = 0
    THEN [f EXCEPT !.pc = "done", !.result = GSEA_ERROR_ARGS]
    ELSE [f EXCEPT !.pc = "loop",
                   !.output = BigEndian(Len(f.input), 8),
                   !.output_null = FALSE,
                   !.pos = 0]

\* one loop iteration, first half: find_longest_match up to its read of
\* hash_table[hash] (lines 152-156, 59-86)
Lz77ProbeFrame(f, ht) ==
    LET size == Len(f.input)
    IN  IF f.pos + 2 >= size
        THEN [f EXCEPT !.pc = "probed", !.probed = FALSE,
                       !.best_offset = 0, !.best_length = 0]
        ELSE LET hash == AndHashMask(compute_hash(f.input, f.pos))
                 m == FindMatch(f.input, f.pos, size, HashRead(ht, hash))
             IN  [f EXCEPT !.pc = "probed", !.probed = TRUE, !.hash = hash,
                           !.best_offset = m.best_offset,
                           !.best_length = m.best_length]

\* one loop iteration, second half: the bucket is overwritten (line 89) ...
Lz77EmitTable(f, ht) ==
    IF f.probed THEN HashWrite(ht, f.hash, U16(f.pos)) ELSE ht

\* faulty variant: after a match pos advances by the length of the match
\* only
Lz77EmitFrameShortStep(f) ==
    LET size == Len(f.input)
    IN  IF f.best_length >= MIN_MATCH_LENGTH
        THEN [f EXCEPT
                 !.pc = "loop",
                 !.output = f.output \o TokenBytes(
                     U16(f.best_offset), f.best_length % 256,
                     IF f.pos + f.best_length < size
                     THEN At(f.input, f.pos + f.best_length) ELSE 0),
                 !.pos = f.pos + f.best_length]
        ELSE [f EXCEPT
                 !.pc = "loop",
                 !.output = f.output \o TokenBytes(0, 0, At(f.input, f.pos)),
                 !.pos = f.pos + 1]

\* ... the token is written and pos advances (lines 158-176)
Lz77EmitFrame(f) ==
    LET size == Len(f.input)
    IN  IF f.best_length >= MIN_MATCH_LENGTH
        THEN [f EXCEPT
                 !.pc = "loop",
                 !.output = f.output \o TokenBytes(
                     U16(f.best_offset), f.best_length % 256,
                     IF f.pos + f.best_length < size
                     THEN At(f.input, f.pos + f.best_length) ELSE 0),
                 !.pos = f.pos + f.best_length + 1]
        ELSE [f EXCEPT
                 !.pc = "loop",
                 !.output = f.output \o TokenBytes(0, 0, At(f.input, f.pos)),
                 !.pos = f.pos + 1]

Lz77CompressBegin(t) ==
    /\ lz77c[t].pc = "call"
    /\ lz77c' = [lz77c EXCEPT ![t] = Lz77BeginFrame(@)]
    /\ IF Len(lz77c[t].input) = 0
       THEN UNCHANGED <<hash_table, hash_owner>>
       ELSE /\ hash_table' = ZeroedTable
            /\ hash_owner' = [memset_by |-> t, written |-> [h \in {} |-> 0]]
    /\ UNCHANGED <<lz77d, huff, rle, lzw, cph, pipe, mem, dir>>

Lz77Probe(t) ==
    /\ lz77c[t].pc = "loop"
    /\ lz77c[t].pos < Len(lz77c[t].input)
    /\ lz77c' = [lz77c EXCEPT ![t] = Lz77ProbeFrame(@, hash_table)]
    /\ UNCHANGED <<hash_table, hash_owner, lz77d, huff, rle, lzw, cph, pipe, mem, dir>>

Lz77Emit(t) ==
    /\ lz77c[t].pc = "probed"
    /\ hash_table' = Lz77EmitTable(lz77c[t], hash_table)
    /\ hash_owner' = IF lz77c[t].probed
                     THEN [hash_owner EXCEPT
                              !.written = HashWrite(@, lz77c[t].hash, t)]
                     ELSE hash_owner
    /\ lz77c' = [lz77c EXCEPT ![t] = Lz77EmitFrame(@)]
    /\ UNCHANGED <<lz77d, huff, rle, lzw, cph, pipe, mem, dir>>

\* the loop test fails: lz77_compress returns GSEA_SUCCESS (lines 152, 185)
Lz77CompressReturn(t) ==
    /\ lz77c[t].pc = "loop"
    /\ lz77c[t].pos >= Len(lz77c[t].input)
    /\ lz77c' = [lz77c EXCEPT ![t].pc = "done", ![t].result = GSEA_SUCCESS]
    /\ UNCHANGED <<hash_table, hash_owner, lz77d, huff, rle, lzw, cph, pipe, mem, dir>>

\* one turn of the loop of lz77_compress (lines 152-182) on <<frame, table>>
Lz77CompressTurn(s) ==
    IF s[1].pc = "done" THEN s
    ELSE IF s[1].pos >= Len(s[1].input)
    THEN <<[s[1] EXCEPT !.pc = "done", !.result = GSEA_SUCCESS], s[2]>>
    ELSE Then(Lz77ProbeFrame(s[1], s[2]), LAMBDA p :
             <<Lz77EmitFrame(p), Lz77EmitTable(p, s[2])>>)

\* n turns of the loop, taken in two runs, the second from what the first
\* has left
RECURSIVE Lz77CompressTurns(_, _)
Lz77CompressTurns(s, n) ==
    IF n = 0 \/ s[1].pc = "done" THEN s
    ELSE IF n = 1 THEN Lz77CompressTurn(s)
    ELSE LET s1 == Lz77CompressTurns(s, n \div 2)
             s2 == Lz77CompressTurns(s1, n - (n \div 2))
         IN  <<s1, s2>>[2]

\* lz77_compress run from entry to return with the table to itself: each
\* turn but the last consumes a byte at least
Lz77CompressLoop(f, ht) == Lz77CompressTurns(<<f, ht>>, Len(f.input) + 1)[1]

lz77_compress(input) ==
    Lz77CompressLoop(Lz77BeginFrame([IdleCompress EXCEPT !.input = input]),
                     ZeroedTable)

\* the reference copy of lz77_decompress, byte by byte, so that a copy may
\* read bytes it has itself just written (lines 250-253)
RECURSIVE CopyReference(_, _, _, _)
CopyReference(out, ref_pos, length, i) ==
    IF i >= length THEN out
    ELSE CopyReference(Append(out, At(out, ref_pos + i)), ref_pos, length, i + 1)

\* faulty variant: the literal of the last token is appended even when the output is
\* already complete
AppendLiteralAlways(out, orig_size, next_char) == Append(out, next_char)

\* "if (output->size < orig_size)" then the literal is appended (lines 257-259)
AppendLiteral(out, orig_size, next_char) ==
    IF Len(out) < orig_size THEN Append(out, next_char) ELSE out

\* lz77_decompress from its entry to the first loop test (lines 189-218)
Lz77DBeginFrame(f) ==
    IF Len(f.input) < 12
    THEN [f EXCEPT !.pc = "done", !.result = GSEA_ERROR_ARGS]
    ELSE LET orig_size == ReadBigEndian(SubSeq(f.input, 1, 8), 8)
         IN  IF orig_size = 0
             THEN [f EXCEPT !.pc = "done", !.output = <<>>,
                            !.output_null = TRUE, !.result = GSEA_SUCCESS]
             ELSE [f EXCEPT !.pc = "loop", !.orig_size = orig_size,
                            !.output = <<>>, !.output_null = FALSE, !.pos = 8]

\* the error returns of lz77_decompress: the buffer is freed, data = NULL
Lz77DFail(f) ==
    [f EXCEPT !.pc = "done", !.output = <<>>, !.output_null = TRUE,
              !.result = GSEA_ERROR_COMPRESSION]

\* one iteration of the decoding loop (lines 219-260)
Lz77DTokenFrame(f) ==
    IF f.pos + 4 > Len(f.input)
    THEN Lz77DFail(f)
    ELSE LET offset == At(f.input, f.pos) * 256 + At(f.input, f.pos + 1)
             length == At(f.input, f.pos + 2)
             next_char == At(f.input, f.pos + 3)
         IN  IF offset > 0 /\ length > 0 /\ offset > Len(f.output)
             THEN Lz77DFail(f)
             ELSE LET copied ==
                        IF offset > 0 /\ length > 0
                        THEN CopyReference(f.output, Len(f.output) - offset,
                                           length, 0)
                        ELSE f.output
                  IN  [f EXCEPT !.pos = f.pos + 4,
                                !.output = AppendLiteral(copied, f.orig_size,
                                                         next_char)]

\* the loop test of lz77_decompress (line 219)
Lz77DMore(f) == f.pos < Len(f.input) /\ Len(f.output) < f.orig_size

\* faulty variant: the return without the size check
Lz77DReturnFrameUnchecked(f) ==
    [f EXCEPT !.pc = "done", !.result = GSEA_SUCCESS]

\* after the loop: the size check and the return (lines 262-273)
Lz77DReturnFrame(f) ==
    IF Len(f.output) # f.orig_size
    THEN Lz77DFail(f)
    ELSE [f EXCEPT !.pc = "done", !.result = GSEA_SUCCESS]

\* lz77_decompress is called on the buffer lz77_compress returned
Lz77DecompressBegin(t) ==
    /\ lz77c[t].pc = "done"
    /\ lz77c[t].result = GSEA_SUCCESS
    /\ lz77d[t].pc = "idle"
    /\ lz77d' = [lz77d EXCEPT
                    ![t] = Lz77DBeginFrame([@ EXCEPT !.input = lz77c[t].output])]
    /\ UNCHANGED <<lz77c, hash_table, hash_owner, huff, rle, lzw, cph, pipe, mem, dir>>

Lz77DecompressToken(t) ==
    /\ lz77d[t].pc = "loop"
    /\ Lz77DMore(lz77d[t])
    /\ lz77d' = [lz77d EXCEPT ![t] = Lz77DTokenFrame(@)]
    /\ UNCHANGED <<lz77c, hash_table, hash_owner, huff, rle, lzw, cph, pipe, mem, dir>>

Lz77DecompressReturn(t) ==
    /\ lz77d[t].pc = "loop"
    /\ ~Lz77DMore(lz77d[t])
    /\ lz77d' = [lz77d EXCEPT ![t] = Lz77DReturnFrame(@)]
    /\ UNCHANGED <<lz77c, hash_table, hash_owner, huff, rle, lzw, cph, pipe, mem, dir>>

\* lz77_decompress run from entry to return
RECURSIVE Lz77DecompressLoop(_)
Lz77DecompressLoop(f) ==
    IF f.pc = "done" THEN f
    ELSE IF Lz77DMore(f) THEN Lz77DecompressLoop(Lz77DTokenFrame(f))
    ELSE Lz77DReturnFrame(f)

lz77_decompress(input) ==
    Lz77DecompressLoop(Lz77DBeginFrame([IdleDecompress EXCEPT !.input = input]))

(***************************************************************************)
(* Huffman: src/compression/huffman.c, and the COMP_HUFFMAN branches of    *)
(* compress_data / decompress_data in src/compression/compression.c        *)
(***************************************************************************)
HUFFMAN_SUCCESS == 0
HUFFMAN_ERROR_MEMORY == -1
HUFFMAN_ERROR_INPUT == -2
HUFFMAN_ERROR_CORRUPT == -3
HUFFMAN_SYMBOLS == 256

SetAt(s, i, v) == [s EXCEPT ![i + 1] = v]

\* memcpy of an n-byte unsigned integer on the little-endian target
RECURSIVE LittleEndian(_, _)
LittleEndian(v, n) ==
    IF n = 0 THEN <<>> ELSE <<v % 256>> \o LittleEndian(v \div 256, n - 1)

\* memcpy into an n-byte unsigned integer, n >= 3
ReadLittleEndian(bytes, n) ==
    IF \E k \in 4..n : bytes[k] # 0 THEN SizeCeiling
    ELSE bytes[1] + (256 * bytes[2]) + (65536 * bytes[3])

\* "freq[input[i]]++" over the input (lines 194-197); the uint32_t counters
\* cannot wrap on inputs shorter than 4 GiB
CountFrequencies(input) ==
    [s \in 0..(HUFFMAN_SYMBOLS - 1) |->
        Cardinality({i \in 1..Len(input) : input[i] = s})]

\* create_node; kids is <<>> for left = right = NULL, <<left, right>> otherwise
create_node(symbol, frequency) ==
    [symbol |-> symbol, frequency |-> frequency, kids |-> <<>>]

IsLeaf(node) == node.kids = <<>>

\* the sift-up loop of insert_min_heap (lines 88-93)
RECURSIVE SiftUp(_, _, _)
SiftUp(nodes, i, node) ==
    IF i > 0 /\ node.frequency < At(nodes, (i - 1) \div 2).frequency
    THEN SiftUp(SetAt(nodes, i, At(nodes, (i - 1) \div 2)), (i - 1) \div 2, node)
    ELSE SetAt(nodes, i, node)

insert_min_heap(heap, node) ==
    IF Len(heap) = HUFFMAN_SYMBOLS THEN heap
    ELSE SiftUp(Append(heap, node), Len(heap), node)

RECURSIVE min_heapify(_, _)
min_heapify(heap, idx) ==
    LET left == 2 * idx + 1
        right == 2 * idx + 2
        s1 == IF left < Len(heap)
                 /\ At(heap, left).frequency < At(heap, idx).frequency
              THEN left ELSE idx
        smallest == IF right < Len(heap)
                       /\ At(heap, right).frequency < At(heap, s1).frequency
                    THEN right ELSE s1
    IN  IF smallest # idx
        THEN min_heapify(SetAt(SetAt(heap, smallest, At(heap, idx)),
                               idx, At(heap, smallest)),
                         smallest)
        ELSE heap

\* extract_min on a non-empty heap: the node taken and the heap left
extract_min(heap) ==
    LET moved == SetAt(heap, 0, At(heap, Len(heap) - 1))
        shrunk == SubSeq(moved, 1, Len(heap) - 1)
    IN  [min |-> At(heap, 0), heap |-> min_heapify(shrunk, 0)]

\* the leaf loop of build_huffman_tree (lines 121-133): the symbols with a
\* non-zero frequency are inserted in ascending order
RECURSIVE InsertLeaves(_, _, _)
InsertLeaves(freq, todo, heap) ==
    IF todo = {} THEN heap
    ELSE LET i == CHOOSE x \in todo : \A y \in todo : x <= y
         IN  InsertLeaves(freq, todo \ {i},
                          insert_min_heap(heap, create_node(i, freq[i])))

\* the combining loop of build_huffman_tree (lines 136-154)
RECURSIVE CombineNodes(_)
CombineNodes(heap) ==
    IF Len(heap) <= 1 THEN heap
    ELSE Then(extract_min(heap), LAMBDA l :
         Then(extract_min(l.heap), LAMBDA r :
             CombineNodes(insert_min_heap(
                 r.heap, [symbol |-> 0,
                          frequency |-> l.min.frequency + r.min.frequency,
                          kids |-> <<l.min, r.min>>]))))

\* build_huffman_tree: <<>> stands for the NULL it returns on an empty heap
build_huffman_tree(freq) ==
    Then(CombineNodes(InsertLeaves(freq, {i \in DOMAIN freq : freq[i] > 0}, <<>>)),
         LAMBDA heap : IF Len(heap) = 0 THEN <<>> ELSE <<At(heap, 0)>>)

\* generate_codes: left is bit 0, right is bit 1
RECURSIVE generate_codes(_, _, _)
generate_codes(root, codes, code) ==
    IF IsLeaf(root)
    THEN [codes EXCEPT ![root.symbol] = code]
    ELSE generate_codes(root.kids[2],
                        generate_codes(root.kids[1], codes, Append(code, 0)),
                        Append(code, 1))

\* the bits of the whole input, in the order the packing loop visits them
RECURSIVE CodeBits(_, _, _)
CodeBits(input, codes, i) ==
    IF i > Len(input) THEN <<>>
    ELSE codes[input[i]] \o CodeBits(input, codes, i + 1)

\* faulty variant: the packing loop fills each byte from its lowest bit
BitMaskLsbFirst(bit_pos) == 2 ^ (bit_pos % 8)

\* "1 << (7 - (bit_pos % 8))" (line 266)
BitMask(bit_pos) == 2 ^ (7 - (bit_pos % 8))

RECURSIVE SumOver(_, _)
SumOver(f, S) ==
    IF S = {} THEN 0
    ELSE LET x == CHOOSE x \in S : TRUE IN f[x] + SumOver(f, S \ {x})

\* the calloc'ed data after the packing loop (lines 250, 262-270)
PackBits(bits) ==
    [b \in 1..((Len(bits) + 7) \div 8) |->
        LET here == {k \in 0..(Len(bits) - 1) : k \div 8 = b - 1 /\ bits[k + 1] = 1}
        IN  SumOver([k \in here |-> BitMask(k)], here)]

NoCompressed == [data |-> <<>>, size |-> 0, original_size |-> 0,
                 freq_table |-> [s \in 0..(HUFFMAN_SYMBOLS - 1) |-> 0]]

\* huffman_compress (lines 188-274), malloc succeeding
huffman_compress(input) ==
    IF Len(input) = 0
    THEN [result |-> HUFFMAN_ERROR_INPUT, compressed |-> NoCompressed]
    ELSE Then(CountFrequencies(input), LAMBDA freq :
         Then(build_huffman_tree(freq), LAMBDA tree :
             IF tree = <<>>
             THEN [result |-> HUFFMAN_ERROR_MEMORY, compressed |-> NoCompressed]
             ELSE IF IsLeaf(tree[1])
             THEN [result |-> HUFFMAN_SUCCESS,
                   compressed |-> [data |-> <<tree[1].symbol>>, size |-> 1,
                                   original_size |-> Len(input),
                                   freq_table |-> freq]]
             ELSE Then(generate_codes(
                           tree[1],
                           [s \in 0..(HUFFMAN_SYMBOLS - 1) |-> <<>>], <<>>),
                       LAMBDA codes :
                  Then(PackBits(CodeBits(input, codes, 1)), LAMBDA data :
                      [result |-> HUFFMAN_SUCCESS,
                       compressed |-> [data |-> data, size |-> Len(data),
                                       original_size |-> Len(input),
                                       freq_table |-> freq]]))))

\* the decoding loops of huffman_decompress (lines 304-325): bit k of the
\* data, counted from the top bit of byte 0
RECURSIVE DecodeBits(_, _, _, _, _)
DecodeBits(c, root, current, k, out) ==
    IF k \div 8 >= c.size \/ Len(out) >= c.original_size
    THEN out
    ELSE LET bit_value == (At(c.data, k \div 8) \div (2 ^ (7 - (k % 8)))) % 2
             next == IF bit_value = 1 THEN current.kids[2] ELSE current.kids[1]
         IN  IF IsLeaf(next)
             THEN DecodeBits(c, root, root, k + 1, Append(out, next.symbol))
             ELSE DecodeBits(c, root, next, k + 1, out)

\* huffman_decompress (lines 276-337), malloc succeeding
huffman_decompress(c) ==
    Then(build_huffman_tree(c.freq_table), LAMBDA tree :
        IF tree = <<>>
        THEN [result |-> HUFFMAN_ERROR_MEMORY, data |-> <<>>]
        ELSE IF IsLeaf(tree[1])
        THEN [result |-> HUFFMAN_SUCCESS,
              data |-> Rep(tree[1].symbol, c.original_size)]
        ELSE Then(DecodeBits(c, tree[1], tree[1], 0, <<>>), LAMBDA out :
                 IF Len(out) # c.original_size
                 THEN [result |-> HUFFMAN_ERROR_CORRUPT, data |-> <<>>]
                 ELSE [result |-> HUFFMAN_SUCCESS, data |-> out]))

\* memcpy of uint32_t freq_table[256]: entry s occupies bytes 4s .. 4s+3
FreqTableBytes(freq) ==
    [k \in 1..(HUFFMAN_SYMBOLS * 4) |->
        LittleEndian(freq[(k - 1) \div 4], 4)[((k - 1) % 4) + 1]]

\* huffman_serialize (lines 345-377):
\* [original_size:8][compressed_size:8][freq_table:256*4][data]
huffman_serialize(c) ==
    LittleEndian(c.original_size, 8) \o LittleEndian(c.size, 8)
        \o FreqTableBytes(c.freq_table) \o c.data

\* huffman_deserialize without the comparison of the input's length with
\* the compressed size it declares: the payload is whatever bytes are there
huffman_deserialize_unchecked(input) ==
    LET min_size == 16 + HUFFMAN_SYMBOLS * 4
    IN  IF Len(input) < min_size
        THEN [result |-> HUFFMAN_ERROR_CORRUPT, compressed |-> NoCompressed]
        ELSE [result |-> HUFFMAN_SUCCESS,
              compressed |->
                  [data |-> SubSeq(input, min_size + 1, Len(input)),
                   size |-> Len(input) - min_size,
                   original_size |-> ReadLittleEndian(SubSeq(input, 1, 8), 8),
                   freq_table |-> [s \in 0..(HUFFMAN_SYMBOLS - 1) |->
                                      ReadLittleEndian(
                                          SubSeq(input, 17 + 4 * s, 20 + 4 * s),
                                          4)]]]

\* huffman_deserialize (lines 379-425)
huffman_deserialize(input) ==
    LET min_size == 16 + HUFFMAN_SYMBOLS * 4
    IN  IF Len(input) < min_size
        THEN [result |-> HUFFMAN_ERROR_CORRUPT, compressed |-> NoCompressed]
        ELSE LET original_size == ReadLittleEndian(SubSeq(input, 1, 8), 8)
                 size == ReadLittleEndian(SubSeq(input, 9, 16), 8)
                 freq == [s \in 0..(HUFFMAN_SYMBOLS - 1) |->
                             ReadLittleEndian(
                                 SubSeq(input, 17 + 4 * s, 20 + 4 * s), 4)]
             IN  IF Len(input) # min_size + size
                 THEN [result |-> HUFFMAN_ERROR_CORRUPT,
                       compressed |-> NoCompressed]
                 ELSE [result |-> HUFFMAN_SUCCESS,
                       compressed |-> [data |-> SubSeq(input, min_size + 1,
                                                       Len(input)),
                                       size |-> size,
                                       original_size |-> original_size,
                                       freq_table |-> freq]]

IdleHuff ==
    [pc |-> "idle", input |-> <<>>, compressed |-> NoCompressed,
     container |-> <<>>, restored |-> NoCompressed, output |-> <<>>,
     result |-> GSEA_SUCCESS]

\* compress_data, case COMP_HUFFMAN: the huffman_compress call (lines 28-36)
HuffmanCompress ==
    /\ huff.pc = "call"
    /\ LET r == huffman_compress(huff.input)
       IN  huff' = IF r.result # HUFFMAN_SUCCESS
                   THEN [huff EXCEPT !.pc = "done",
                                     !.result = GSEA_ERROR_COMPRESSION]
                   ELSE [huff EXCEPT !.pc = "compressed",
                                     !.compressed = r.compressed]
    /\ UNCHANGED <<lzVars, rle, lzw, cph, pipe, mem, dir>>

\* compress_data, case COMP_HUFFMAN: huffman_serialize into the output
\* buffer and the return (lines 38-55)
HuffmanSerialize ==
    /\ huff.pc = "compressed"
    /\ huff' = [huff EXCEPT !.pc = "serialized",
                            !.container = huffman_serialize(huff.compressed),
                            !.result = GSEA_SUCCESS]
    /\ UNCHANGED <<lzVars, rle, lzw, cph, pipe, mem, dir>>

\* decompress_data, case COMP_HUFFMAN: huffman_deserialize (lines 108-116)
HuffmanDeserialize ==
    /\ huff.pc = "serialized"
    /\ LET r == huffman_deserialize(huff.container)
       IN  huff' = IF r.result # HUFFMAN_SUCCESS
                   THEN [huff EXCEPT !.pc = "done",
                                     !.result = GSEA_ERROR_COMPRESSION]
                   ELSE [huff EXCEPT !.pc = "deserialized",
                                     !.restored = r.compressed]
    /\ UNCHANGED <<lzVars, rle, lzw, cph, pipe, mem, dir>>

\* decompress_data, case COMP_HUFFMAN: huffman_decompress and the return
\* (lines 118-136)
HuffmanDecompress ==
    /\ huff.pc = "deserialized"
    /\ LET r == huffman_decompress(huff.restored)
       IN  huff' = IF r.result # HUFFMAN_SUCCESS
                   THEN [huff EXCEPT !.pc = "done",
                                     !.result = GSEA_ERROR_COMPRESSION]
                   ELSE [huff EXCEPT !.pc = "done", !.output = r.data,
                                     !.result = GSEA_SUCCESS]
    /\ UNCHANGED <<lzVars, rle, lzw, cph, pipe, mem, dir>>

(***************************************************************************)
(* RLE: src/compression/rle.c, and the COMP_RLE branches of                *)
(* compress_data / decompress_data in src/compression/compression.c        *)
(***************************************************************************)
RLE_SUCCESS == 0
RLE_ERROR_MEMORY == -1
RLE_ERROR_INPUT == -2
RLE_ERROR_CORRUPT == -3
RLE_MAX_RUN_LENGTH == 255

\* the counting loop of rle_compress stops at the first run_length where its
\* condition fails (lines 52-56)
RunStops(input, i, run_length, max_run) ==
    \/ i + run_length >= Len(input)
    \/ At(input, i + run_length) # At(input, i)
    \/ run_length >= max_run

RunLengthUpTo(input, i, max_run) ==
    LET stops == {r \in 1..Min(max_run, Len(input) - i) :
                     RunStops(input, i, r, max_run)}
    IN  CHOOSE r \in stops : \A q \in stops : r <= q

\* faulty variant: the counting loop without its ceiling
RunLengthUncapped(input, i) == RunLengthUpTo(input, i, Len(input))

RunLength(input, i) == RunLengthUpTo(input, i, RLE_MAX_RUN_LENGTH)

\* write_run: "(uint8_t)count" then the value (lines 25-27)
write_run(buffer, value, count) == buffer \o <<count % 256, value>>

IdleRle ==
    [pc |-> "idle", input |-> <<>>, i |-> 0, buffer |-> <<>>,
     container |-> <<>>, data |-> <<>>, size |-> 0, original_size |-> 0,
     in_pos |-> 0, output |-> <<>>, result |-> GSEA_SUCCESS]

\* the error returns of the COMP_RLE branches: every engine error is
\* reported as GSEA_ERROR_COMPRESSION
RleFail(f) == [f EXCEPT !.pc = "done", !.output = <<>>,
                        !.result = GSEA_ERROR_COMPRESSION]

\* rle_compress from its entry to its loop (lines 32-46)
RleCompressBeginFrame(f) ==
    IF Len(f.input) = 0 THEN RleFail(f)
    ELSE [f EXCEPT !.pc = "encode", !.i = 0, !.buffer = <<>>]

\* one iteration of the run loop (lines 47-66)
RleCompressRunFrame(f) ==
    LET run_length == RunLength(f.input, f.i)
    IN  [f EXCEPT !.buffer = write_run(f.buffer, At(f.input, f.i), run_length),
                  !.i = f.i + run_length]

\* rle_serialize: [original_size:8][compressed_size:8][data]
rle_serialize(data, size, original_size) ==
    LittleEndian(original_size, 8) \o LittleEndian(size, 8) \o data

\* the loop of rle_compress has ended: the result structure is filled
\* (lines 68-85) and compress_data serializes it into its output buffer
RleCompressReturnFrame(f) ==
    [f EXCEPT !.pc = "serialized",
              !.container = rle_serialize(f.buffer, Len(f.buffer), Len(f.input)),
              !.result = GSEA_SUCCESS]

\* decompress_data: rle_deserialize (lines 170-211), then rle_decompress up
\* to its loop (lines 88-100)
RleDeserializeFrame(f) ==
    IF Len(f.container) < 16 THEN RleFail(f)
    ELSE LET original_size == ReadLittleEndian(SubSeq(f.container, 1, 8), 8)
             size == ReadLittleEndian(SubSeq(f.container, 9, 16), 8)
         IN  IF Len(f.container) # 16 + size THEN RleFail(f)
             ELSE [f EXCEPT !.pc = "decode",
                            !.data = SubSeq(f.container, 17, Len(f.container)),
                            !.size = size, !.original_size = original_size,
                            !.in_pos = 0, !.output = <<>>]

RleDecompressMore(f) == f.in_pos < f.size /\ Len(f.output) < f.original_size

\* one iteration of the decoding loop (lines 102-121)
RleDecompressRunFrame(f) ==
    IF f.in_pos + 1 >= f.size THEN RleFail(f)
    ELSE LET count == At(f.data, f.in_pos)
             value == At(f.data, f.in_pos + 1)
         IN  IF Len(f.output) + count > f.original_size THEN RleFail(f)
             ELSE [f EXCEPT !.in_pos = f.in_pos + 2,
                            !.output = f.output \o Rep(value, count)]

\* after the loop: the size check and the return (lines 124-132)
RleDecompressReturnFrame(f) ==
    IF Len(f.output) # f.original_size THEN RleFail(f)
    ELSE [f EXCEPT !.pc = "done", !.result = GSEA_SUCCESS]

RleCompressBegin ==
    /\ rle.pc = "call"
    /\ rle' = RleCompressBeginFrame(rle)
    /\ UNCHANGED <<lzVars, huff, lzw, cph, pipe, mem, dir>>

RleCompressRun ==
    /\ rle.pc = "encode"
    /\ rle.i < Len(rle.input)
    /\ rle' = RleCompressRunFrame(rle)
    /\ UNCHANGED <<lzVars, huff, lzw, cph, pipe, mem, dir>>

RleCompressReturn ==
    /\ rle.pc = "encode"
    /\ rle.i >= Len(rle.input)
    /\ rle' = RleCompressReturnFrame(rle)
    /\ UNCHANGED <<lzVars, huff, lzw, cph, pipe, mem, dir>>

RleDeserialize ==
    /\ rle.pc = "serialized"
    /\ rle' = RleDeserializeFrame(rle)
    /\ UNCHANGED <<lzVars, huff, lzw, cph, pipe, mem, dir>>

RleDecompressRun ==
    /\ rle.pc = "decode"
    /\ RleDecompressMore(rle)
    /\ rle' = RleDecompressRunFrame(rle)
    /\ UNCHANGED <<lzVars, huff, lzw, cph, pipe, mem, dir>>

RleDecompressReturn ==
    /\ rle.pc = "decode"
    /\ ~RleDecompressMore(rle)
    /\ rle' = RleDecompressReturnFrame(rle)
    /\ UNCHANGED <<lzVars, huff, lzw, cph, pipe, mem, dir>>

\* the COMP_RLE branch of compress_data run from entry to return
RECURSIVE RleCompressLoop(_)
RleCompressLoop(f) ==
    IF f.pc # "encode" THEN f
    ELSE IF f.i < Len(f.input) THEN RleCompressLoop(RleCompressRunFrame(f))
    ELSE RleCompressReturnFrame(f)

\* the COMP_RLE branch of decompress_data run from entry to return
RECURSIVE RleDecompressLoop(_)
RleDecompressLoop(f) ==
    IF f.pc # "decode" THEN f
    ELSE IF RleDecompressMore(f) THEN RleDecompressLoop(RleDecompressRunFrame(f))
    ELSE RleDecompressReturnFrame(f)

(***************************************************************************)
(* LZW: src/compression/lzw.c                                              *)
(***************************************************************************)
LZW_MAX_DICT_SIZE == 4096
LZW_INIT_DICT_SIZE == 256
LZW_SUCCESS == 0
LZW_ERROR_INPUT == -1
LZW_ERROR_MEMORY == -2
LZW_ERROR_CORRUPT == -3

\* the encoder's dictionary after its initialisation loop (lines 43-54):
\* entries 0..255 are the single bytes, entry 256 is left as calloc made it,
\* dict_size is 257. Only the first dict_size entries are ever scanned.
LzwInitialDict ==
    [i \in 1..(LZW_INIT_DICT_SIZE + 1) |->
        IF i <= LZW_INIT_DICT_SIZE
        THEN [prefix |-> 65535, character |-> i - 1, used |-> TRUE]
        ELSE [prefix |-> 0, character |-> 0, used |-> FALSE]]

\* find_in_dict: the first index whose entry is used and matches, or -1
find_in_dict(dict, prefix, character) ==
    LET found == {i \in 0..(Len(dict) - 1) :
                     /\ At(dict, i).used
                     /\ At(dict, i).prefix = prefix
                     /\ At(dict, i).character = character}
    IN  IF found = {} THEN -1
        ELSE CHOOSE i \in found : \A j \in found : i <= j

\* the decoder's dictionary after its initialisation loop (lines 148-168):
\* dict[256] is never assigned, dict_lengths[256] is 0
LzwInitialSequences ==
    [i \in 1..(LZW_INIT_DICT_SIZE + 1) |->
        IF i <= LZW_INIT_DICT_SIZE THEN <<i - 1>> ELSE <<>>]

IdleLzw ==
    [pc |-> "idle", input |-> <<>>, i |-> 0, w |-> 0, dict |-> <<>>,
     codes |-> <<>>, container |-> <<>>,
     dcodes |-> <<>>, code_count |-> 0, original_size |-> 0,
     old_code |-> 0, seqs |-> <<>>, freed |-> {}, misuse |-> FALSE,
     stray |-> 0,
     output |-> <<>>, output_null |-> TRUE, result |-> LZW_SUCCESS]

\* lzw_compress from its entry to its loop (lines 37-66)
LzwCompressBeginFrame(f) ==
    IF Len(f.input) = 0
    THEN [f EXCEPT !.pc = "done", !.result = LZW_ERROR_INPUT]
    ELSE [f EXCEPT !.pc = "encode", !.dict = LzwInitialDict,
                   !.codes = <<>>, !.w = At(f.input, 0), !.i = 1]

\* one iteration of the encoding loop (lines 68-103)
LzwCompressByteFrame(f) ==
    LET k == At(f.input, f.i)
        code == find_in_dict(f.dict, f.w, k)
    IN  IF code # -1
        THEN [f EXCEPT !.w = code, !.i = f.i + 1]
        ELSE [f EXCEPT
                 !.codes = Append(f.codes, f.w),
                 !.dict = IF Len(f.dict) < LZW_MAX_DICT_SIZE
                          THEN Append(f.dict, [prefix |-> f.w, character |-> k,
                                               used |-> TRUE])
                          ELSE f.dict,
                 !.w = k,
                 !.i = f.i + 1]

\* n iterations of the encoding loop: the first half, and from the frame it
\* leaves (its pc is still "encode") the second half
RECURSIVE LzwCompressBytes(_, _)
LzwCompressBytes(f, n) ==
    IF n = 0 THEN f
    ELSE IF n = 1 THEN LzwCompressByteFrame(f)
    ELSE LET half == LzwCompressBytes(f, n \div 2)
         IN  IF half.pc = "encode"
             THEN LzwCompressBytes(half, n - n \div 2)
             ELSE half

\* the loop has ended: the last code is emitted, the dictionary is freed and
\* lzw_compress returns (lines 105-129)
LzwCompressReturnFrame(f) ==
    [f EXCEPT !.pc = "compressed",
              !.codes = Append(f.codes, f.w),
              !.dict = <<>>,
              !.original_size = Len(f.input),
              !.result = LZW_SUCCESS]

\* lzw_compress, entry to return
LzwCompress ==
    /\ lzw.pc = "call"
    /\ lzw' = LET f == LzwCompressBeginFrame(lzw)
              IN  IF f.pc = "done" THEN f
                  ELSE LzwCompressReturnFrame(
                           LzwCompressBytes(f, Len(f.input) - 1))
    /\ UNCHANGED <<lzVars, huff, rle, cph, pipe, mem, dir>>

\* the code loop of lzw_serialize: low byte, then high byte (lines 311-314)
LzwCodeBytes(codes) ==
    [k \in 1..(2 * Len(codes)) |->
        IF k % 2 = 1 THEN codes[(k + 1) \div 2] % 256
        ELSE (codes[k \div 2] \div 256) % 256]

\* lzw_serialize: [original_size:8][code_count:8][codes:code_count*2]
\* (lines 288-319)
lzw_serialize(codes, original_size) ==
    LittleEndian(original_size, 8) \o LittleEndian(Len(codes), 8)
        \o LzwCodeBytes(codes)

LzwSerialize ==
    /\ lzw.pc = "compressed"
    /\ lzw' = [lzw EXCEPT
                  !.pc = "serialized",
                  !.container = lzw_serialize(lzw.codes, lzw.original_size)]
    /\ UNCHANGED <<lzVars, huff, rle, cph, pipe, mem, dir>>

\* lzw_deserialize (lines 324-368)
LzwDeserialize ==
    /\ lzw.pc = "serialized"
    /\ LET c == lzw.container
       IN  lzw' =
             IF Len(c) < 16
             THEN [lzw EXCEPT !.pc = "done", !.result = LZW_ERROR_CORRUPT]
             ELSE LET original_size == ReadLittleEndian(SubSeq(c, 1, 8), 8)
                      code_count == ReadLittleEndian(SubSeq(c, 9, 16), 8)
                  IN  IF Len(c) # 16 + code_count * 2
                      THEN [lzw EXCEPT !.pc = "done",
                                       !.result = LZW_ERROR_CORRUPT]
                      ELSE [lzw EXCEPT
                               !.pc = "deserialized",
                               !.original_size = original_size,
                               !.code_count = code_count,
                               !.dcodes = [i \in 1..code_count |->
                                              c[15 + 2 * i] + 256 * c[16 + 2 * i]]]
    /\ UNCHANGED <<lzVars, huff, rle, cph, pipe, mem, dir>>

\* lzw_decompress from its entry to its loop (lines 135-190). The first
\* code is stored in result[0] whatever original_size is: with
\* original_size = 0 that is a write past the end of the malloc(0) block.
LzwDecompressBeginFrame(f) ==
    IF f.code_count = 0
    THEN [f EXCEPT !.pc = "done", !.output = <<>>, !.output_null = TRUE,
                   !.result = LZW_SUCCESS]
    ELSE IF At(f.dcodes, 0) >= LZW_INIT_DICT_SIZE
    THEN [f EXCEPT !.pc = "done", !.result = LZW_ERROR_CORRUPT]
    ELSE [f EXCEPT !.pc = "decode", !.seqs = LzwInitialSequences,
                   !.freed = {}, !.misuse = (f.original_size = 0),
                   !.old_code = At(f.dcodes, 0),
                   !.output = <<At(f.dcodes, 0)>>,
                   !.output_null = FALSE, !.i = 1]

\* "if (code == dict_size - 1) free(sequence)" (lines 255-257), for a code
\* that was found in the dictionary: sequence is then dict[code] itself.
\* dict_size is the size after this iteration's addition.
FreesEntry(code, dict_size) == code = dict_size - 1

\* dict is malloc'ed, entries 0..255 are assigned and dict_size starts at
\* 257 (lines 148-168): dict[256] is never assigned, its length is 0
UnassignedEntry == LZW_INIT_DICT_SIZE

\* one iteration of the decoding loop (lines 193-260). misuse records a read
\* through, or a second free() of, a pointer already passed to free(), and a
\* read through the pointer dict[256] that was never assigned; the iteration
\* is carried on with the bytes the entry had, and with the byte f.stray for
\* what is read through dict[256].
LzwDecompressCodeFrame(f) ==
    IF f.pc # "decode" THEN f
    ELSE
    LET code == At(f.dcodes, f.i)
        dict_size == Len(f.seqs)
        known == code < dict_size
        old_first == IF f.old_code = UnassignedEntry THEN f.stray
                     ELSE At(f.seqs, f.old_code)[1]
        sequence == IF known THEN At(f.seqs, code)
                    ELSE Append(At(f.seqs, f.old_code), old_first)
        first == IF known /\ code = UnassignedEntry THEN f.stray
                 ELSE sequence[1]
        seqs2 == IF dict_size < LZW_MAX_DICT_SIZE
                 THEN Append(f.seqs, Append(At(f.seqs, f.old_code), first))
                 ELSE f.seqs
        frees == known /\ FreesEntry(code, Len(seqs2))
        built == ~known /\ code = dict_size /\ f.old_code = UnassignedEntry
        added == known /\ code = UnassignedEntry
                     /\ dict_size < LZW_MAX_DICT_SIZE
    IN  IF code > dict_size \/ Len(f.output) + Len(sequence) > f.original_size
        THEN [f EXCEPT !.pc = "done", !.output = <<>>, !.output_null = TRUE,
                       !.seqs = <<>>,
                       !.misuse = f.misuse \/ built \/ f.freed # {},
                       !.result = LZW_ERROR_CORRUPT]
        ELSE [f EXCEPT
                 !.output = f.output \o sequence,
                 !.seqs = seqs2,
                 !.misuse = f.misuse \/ (known /\ code \in f.freed)
                                \/ built \/ added,
                 !.freed = IF frees THEN f.freed \cup {code} ELSE f.freed,
                 !.old_code = code,
                 !.i = f.i + 1]

\* n iterations of the decoding loop: the first half, and unless it ended
\* with an error return the second half
RECURSIVE LzwDecompressCodes(_, _)
LzwDecompressCodes(f, n) ==
    IF n = 0 THEN f
    ELSE IF n = 1 THEN LzwDecompressCodeFrame(f)
    ELSE LET half == LzwDecompressCodes(f, n \div 2)
         IN  IF half.pc = "decode"
             THEN LzwDecompressCodes(half, n - n \div 2)
             ELSE half

\* the loop has ended: every dictionary entry is freed, the ones the loop
\* freed a second time, and lzw_decompress returns (lines 262-273)
LzwDecompressReturnFrame(f) ==
    IF f.pc # "decode" THEN f
    ELSE [f EXCEPT !.pc = "done", !.seqs = <<>>,
                   !.misuse = f.misuse \/ f.freed # {},
                   !.result = LZW_SUCCESS]

\* what a read through a pointer that was already passed to free() or never
\* assigned, a second free() of it, or a write past the end of a block can
\* do: go unnoticed, or end the process
HeapMisuseOutcomes == {"unnoticed", "abort"}

\* lzw_decompress, entry to return
LzwDecompress ==
    /\ lzw.pc = "deserialized"
    /\ LET b == LzwDecompressBeginFrame(lzw)
           f == LzwDecompressReturnFrame(
                    LzwDecompressCodes(b, b.code_count - 1))
       IN  \E outcome \in HeapMisuseOutcomes :
              /\ ~f.misuse => outcome = "unnoticed"
              /\ lzw' = IF outcome = "abort"
                        THEN [f EXCEPT !.pc = "aborted", !.output = <<>>,
                                       !.output_null = TRUE]
                        ELSE f
    /\ UNCHANGED <<lzVars, huff, rle, cph, pipe, mem, dir>>

(***************************************************************************)
(* 32-bit words. A uint32_t is the pair <<high 16 bits, low 16 bits>>, so  *)
(* that sums, shifts and rotations wrap at 2^32 as they do in the code.    *)
(***************************************************************************)
RECURSIVE XorBits(_, _)
XorBits(a, b) ==
    IF a = 0 THEN b
    ELSE IF b = 0 THEN a
    ELSE ((a + b) % 2) + 2 * XorBits(a \div 2, b \div 2)

XorNibble == [a \in 0..15 |-> [b \in 0..15 |-> XorBits(a, b)]]

\* the ^ of two uint8_t
XorByte(a, b) ==
    (16 * XorNibble[a \div 16][b \div 16]) + XorNibble[a % 16][b % 16]

Xor16(x, y) ==
    (256 * XorByte(x \div 256, y \div 256)) + XorByte(x % 256, y % 256)

\* the ^ of two uint32_t
Xor32(a, b) == <<Xor16(a[1], b[1]), Xor16(a[2], b[2])>>

\* the + of two uint32_t
Add32(a, b) ==
    LET lo == a[2] + b[2]
    IN  <<(a[1] + b[1] + lo \div 65536) % 65536, lo % 65536>>

\* #define ROTL32(x, n) (((x) << (n)) | ((x) >> (32 - (n)))), 0 < n < 32
RECURSIVE ROTL32(_, _)
ROTL32(x, n) ==
    IF n = 16 THEN <<x[2], x[1]>>
    ELSE IF n > 16 THEN ROTL32(<<x[2], x[1]>>, n - 16)
    ELSE <<((x[1] * (2 ^ n)) % 65536) + (x[2] \div (2 ^ (16 - n))),
           ((x[2] * (2 ^ n)) % 65536) + (x[1] \div (2 ^ (16 - n)))>>

load32_le(p, off) ==
    <<At(p, off + 2) + (256 * At(p, off + 3)), At(p, off) + (256 * At(p, off + 1))>>

store32_le(v) == <<v[2] % 256, v[2] \div 256, v[1] % 256, v[1] \div 256>>

\* a function over 1..n as the array of its values
Array(f, n) == SubSeq(f, 1, n)

\* the little-endian serialisation of an array of n uint32_t
StoreWords(words, n) ==
    Array([k \in 1..(4 * n) |-> store32_le(words[(k + 3) \div 4])[((k - 1) % 4) + 1]],
          4 * n)

(***************************************************************************)
(* simple_hash, the same function in rc4.c, chacha20.c and salsa20.c       *)
(***************************************************************************)
SimpleHashRounds == 1000

\* 0x6a09e667, 0xbb67ae85, 0x3c6ef372, 0xa54ff53a,
\* 0x510e527f, 0x9b05688c, 0x1f83d9ab, 0x5be0cd19
SimpleHashInit ==
    <<<<27145, 58983>>,
      <<47975, 44677>>,
      <<15470, 62322>>,
      <<42319, 62778>>,
      <<20750, 21119>>,
      <<39685, 26764>>,
      <<8067, 55723>>,
      <<23520, 52505>>>>

\* the input loop: state[idx] ^= input[i]; rotate by 7; add into the next word
RECURSIVE HashAbsorb(_, _, _)
HashAbsorb(state, input, i) ==
    IF i >= Len(input) THEN state
    ELSE LET idx == i % 8
             nxt == (idx + 1) % 8
             s1 == SetAt(state, idx,
                         ROTL32(Xor32(At(state, idx), <<0, At(input, i)>>), 7))
             s2 == SetAt(s1, nxt, Add32(At(s1, nxt), At(s1, idx)))
         IN  IF Len(s2) = 8 THEN HashAbsorb(s2, input, i + 1) ELSE s2

\* one round (one pass of the inner loop): word i becomes ROTL32(state[i] +
\* state[i + 1], 11); the last word adds the first one, already updated
HashRound(state) ==
    LET first == ROTL32(Add32(state[1], state[2]), 11)
    IN  Array([i \in 1..8 |->
                  IF i = 1 THEN first
                  ELSE IF i < 8 THEN ROTL32(Add32(state[i], state[i + 1]), 11)
                  ELSE ROTL32(Add32(state[8], first), 11)], 8)

\* n rounds, taken in eight runs, each from what the run
\* before has left
RECURSIVE HashRounds(_, _)
HashRounds(ctx, n) ==
    IF n = 0 THEN ctx
    ELSE IF n = 1 THEN HashRound(ctx)
    ELSE LET s1 == HashRounds(ctx, (n + 7) \div 8)
             s2 == HashRounds(s1, (n + 6) \div 8)
             s3 == HashRounds(s2, (n + 5) \div 8)
             s4 == HashRounds(s3, (n + 4) \div 8)
             s5 == HashRounds(s4, (n + 3) \div 8)
             s6 == HashRounds(s5, (n + 2) \div 8)
             s7 == HashRounds(s6, (n + 1) \div 8)
             s8 == HashRounds(s7, n \div 8)
         IN  <<s1, s2, s3, s4, s5, s6, s7, s8>>[8]

\* the 32 bytes simple_hash writes
simple_hash(input) ==
    Then(HashAbsorb(SimpleHashInit, input, 0), LAMBDA absorbed :
    Then(HashRounds(absorbed, SimpleHashRounds), LAMBDA mixed :
        StoreWords(mixed, 8)))

Returned(result, data) == [result |-> result, data |-> data, null |-> FALSE]
Failed(result) == [result |-> result, data |-> <<>>, null |-> TRUE]

\* faulty variant: the keystream byte is added to the data byte
CryptByteSum(input_byte, keystream_byte) == (input_byte + keystream_byte) % 256

\* "output[i] = input[i] ^ keystream byte" (rc4.c:73, chacha20.c:142,
\* salsa20.c:164)
CryptByte(input_byte, keystream_byte) == XorByte(input_byte, keystream_byte)

\* what malloc(0) may return
MallocZeroOutcomes == {"null", "pointer"}

RC4_KEY_SIZE == 16
RC4_STATE_SIZE == 256

\* one iteration of the key scheduling loop of rc4_init (lines 32-39)
Rc4KsaStep(ctx, key) ==
    LET j == (ctx.j + At(ctx.S, ctx.i) + At(key, ctx.i % Len(key))) % RC4_STATE_SIZE
    IN  [ctx EXCEPT !.j = j, !.i = ctx.i + 1,
                    !.S = SetAt(SetAt(ctx.S, ctx.i, At(ctx.S, j)), j, At(ctx.S, ctx.i))]

\* n iterations of the key scheduling loop, taken in eight runs, each from what the run
\* before has left
RECURSIVE Rc4KsaSteps(_, _, _)
Rc4KsaSteps(ctx, key, n) ==
    IF n = 0 THEN ctx
    ELSE IF n = 1 THEN Rc4KsaStep(ctx, key)
    ELSE LET s1 == Rc4KsaSteps(ctx, key, (n + 7) \div 8)
             s2 == Rc4KsaSteps(s1, key, (n + 6) \div 8)
             s3 == Rc4KsaSteps(s2, key, (n + 5) \div 8)
             s4 == Rc4KsaSteps(s3, key, (n + 4) \div 8)
             s5 == Rc4KsaSteps(s4, key, (n + 3) \div 8)
             s6 == Rc4KsaSteps(s5, key, (n + 2) \div 8)
             s7 == Rc4KsaSteps(s6, key, (n + 1) \div 8)
             s8 == Rc4KsaSteps(s7, key, n \div 8)
         IN  <<s1, s2, s3, s4, s5, s6, s7, s8>>[8]

\* rc4_init (lines 20-46) with a non-empty key
rc4_init(key) ==
    LET ksa == Rc4KsaSteps([S |-> Array([k \in 1..RC4_STATE_SIZE |-> k - 1],
                                        RC4_STATE_SIZE),
                            i |-> 0, j |-> 0], key, RC4_STATE_SIZE)
    IN  [S |-> ksa.S, i |-> 0, j |-> 0, output |-> <<>>]

\* one iteration of the loop of rc4_crypt (lines 57-74)
Rc4CryptStep(ctx, input) ==
    LET i == (ctx.i + 1) % RC4_STATE_SIZE
        j == (ctx.j + At(ctx.S, i)) % RC4_STATE_SIZE
        S == SetAt(SetAt(ctx.S, i, At(ctx.S, j)), j, At(ctx.S, i))
        K == At(S, (At(S, i) + At(S, j)) % RC4_STATE_SIZE)
    IN  [S |-> S, i |-> i, j |-> j,
         output |-> Append(ctx.output, CryptByte(At(input, Len(ctx.output)), K))]

\* n iterations of the loop of rc4_crypt, taken in eight runs, each from what the run
\* before has left
RECURSIVE Rc4CryptSteps(_, _, _)
Rc4CryptSteps(ctx, input, n) ==
    IF n = 0 THEN ctx
    ELSE IF n = 1 THEN Rc4CryptStep(ctx, input)
    ELSE LET s1 == Rc4CryptSteps(ctx, input, (n + 7) \div 8)
             s2 == Rc4CryptSteps(s1, input, (n + 6) \div 8)
             s3 == Rc4CryptSteps(s2, input, (n + 5) \div 8)
             s4 == Rc4CryptSteps(s3, input, (n + 4) \div 8)
             s5 == Rc4CryptSteps(s4, input, (n + 3) \div 8)
             s6 == Rc4CryptSteps(s5, input, (n + 2) \div 8)
             s7 == Rc4CryptSteps(s6, input, (n + 1) \div 8)
             s8 == Rc4CryptSteps(s7, input, n \div 8)
         IN  <<s1, s2, s3, s4, s5, s6, s7, s8>>[8]

rc4_crypt(ctx, input) == Rc4CryptSteps(ctx, input, Len(input)).output

\* rc4_derive_key: the first 16 bytes of simple_hash (lines 123-135)
rc4_derive_key(password) == SubSeq(simple_hash(password), 1, RC4_KEY_SIZE)

\* rc4_encrypt (lines 142-204): [size:8 little-endian][data]
rc4_encrypt(input, key) ==
    IF Len(key) = 0 \/ Len(input) = 0 THEN Failed(GSEA_ERROR_ARGS)
    ELSE Then(rc4_derive_key(key), LAMBDA derived_key :
         Then(rc4_init(derived_key), LAMBDA ctx :
         Then(rc4_crypt(ctx, input), LAMBDA data :
             Returned(GSEA_SUCCESS, LittleEndian(Len(input), 8) \o data))))

\* rc4_decrypt (lines 209-277); malloc0 is what malloc(0) returns
rc4_decrypt(input, key, malloc0) ==
    IF Len(key) = 0 THEN Failed(GSEA_ERROR_ARGS)
    ELSE IF Len(input) < 8 THEN Failed(GSEA_ERROR_ENCRYPTION)
    ELSE IF 8 + ReadLittleEndian(SubSeq(input, 1, 8), 8) # Len(input)
    THEN Failed(GSEA_ERROR_ENCRYPTION)
    ELSE IF Len(input) = 8 /\ malloc0 = "null" THEN Failed(GSEA_ERROR_MEMORY)
    ELSE Then(rc4_derive_key(key), LAMBDA derived_key :
         Then(rc4_init(derived_key), LAMBDA ctx :
         Then(rc4_crypt(ctx, SubSeq(input, 9, Len(input))), LAMBDA data :
             Returned(GSEA_SUCCESS, data))))

CHACHA20_KEY_SIZE == 32
CHACHA20_NONCE_SIZE == 12
CHACHA20_BLOCK_SIZE == 64

\* 0x61707865, 0x3320646e, 0x79622d32, 0x6b206574
CHACHA20_CONSTANTS == <<<<24944, 30821>>, <<13088, 25710>>, <<31074, 11570>>, <<27424, 25972>>>>

\* #define QUARTERROUND(a, b, c, d) on x[a], x[b], x[c], x[d]: the first four
\* assignments of the macro in the order it makes them, then the other four
QUARTERROUND(x, a, b, c, d) ==
    Then(LET a1 == Add32(At(x, a), At(x, b))
             d1 == ROTL32(Xor32(At(x, d), a1), 16)
             c1 == Add32(At(x, c), d1)
             b1 == ROTL32(Xor32(At(x, b), c1), 12)
         IN  <<a1, d1, c1, b1>>, LAMBDA h :
    Then(LET a2 == Add32(h[1], h[4])
             d2 == ROTL32(Xor32(h[2], a2), 8)
             c2 == Add32(h[3], d2)
             b2 == ROTL32(Xor32(h[4], c2), 7)
         IN  <<a2, d2, c2, b2>>, LAMBDA w :
        Array([k \in 1..16 |->
                  IF k = a + 1 THEN w[1]
                  ELSE IF k = b + 1 THEN w[4]
                  ELSE IF k = c + 1 THEN w[3]
                  ELSE IF k = d + 1 THEN w[2]
                  ELSE x[k]], 16)))

\* the eight QUARTERROUND calls of one iteration of the round loop of
\* chacha20_block (lines 58-69): four on the columns, then four on the
\* diagonals
ChaCha20QuarterRounds ==
    <<<<0, 4, 8, 12>>, <<1, 5, 9, 13>>, <<2, 6, 10, 14>>, <<3, 7, 11, 15>>,
      <<0, 5, 10, 15>>, <<1, 6, 11, 12>>, <<2, 7, 8, 13>>, <<3, 4, 9, 14>>>>

\* calls first..last of them, each on what the call before has left
RECURSIVE ChaCha20QuarterRoundCalls(_, _, _)
ChaCha20QuarterRoundCalls(x, first, last) ==
    IF first = last
    THEN QUARTERROUND(x, ChaCha20QuarterRounds[first][1],
                      ChaCha20QuarterRounds[first][2],
                      ChaCha20QuarterRounds[first][3],
                      ChaCha20QuarterRounds[first][4])
    ELSE LET s1 == ChaCha20QuarterRoundCalls(x, first, (first + last) \div 2)
             s2 == ChaCha20QuarterRoundCalls(s1, ((first + last) \div 2) + 1, last)
         IN  <<s1, s2>>[2]

ChaCha20DoubleRound(x) == ChaCha20QuarterRoundCalls(x, 1, 8)

\* n iterations of the round loop, taken in eight runs, each from what the run
\* before has left
RECURSIVE ChaCha20Rounds(_, _)
ChaCha20Rounds(ctx, n) ==
    IF n = 0 THEN ctx
    ELSE IF n = 1 THEN ChaCha20DoubleRound(ctx)
    ELSE LET s1 == ChaCha20Rounds(ctx, (n + 7) \div 8)
             s2 == ChaCha20Rounds(s1, (n + 6) \div 8)
             s3 == ChaCha20Rounds(s2, (n + 5) \div 8)
             s4 == ChaCha20Rounds(s3, (n + 4) \div 8)
             s5 == ChaCha20Rounds(s4, (n + 3) \div 8)
             s6 == ChaCha20Rounds(s5, (n + 2) \div 8)
             s7 == ChaCha20Rounds(s6, (n + 1) \div 8)
             s8 == ChaCha20Rounds(s7, n \div 8)
         IN  <<s1, s2, s3, s4, s5, s6, s7, s8>>[8]

\* chacha20_block (lines 51-81): the 64 keystream bytes of a state
chacha20_block(input) ==
    Then(ChaCha20Rounds(input, 10), LAMBDA x :
    Then(Array([k \in 1..16 |-> Add32(x[k], input[k])], 16), LAMBDA sum :
        StoreWords(sum, 16)))

\* chacha20_init (lines 83-119)
chacha20_init(key, nonce, counter) ==
    [state |-> CHACHA20_CONSTANTS
                  \o [k \in 1..8 |-> load32_le(key, 4 * (k - 1))]
                  \o <<counter>>
                  \o [k \in 1..3 |-> load32_le(nonce, 4 * (k - 1))],
     keystream |-> <<>>,
     keystream_pos |-> CHACHA20_BLOCK_SIZE,
     output |-> <<>>,
     error |-> FALSE]

\* faulty variant: the counter's return to 0 is not looked at
ChaCha20CryptStepWrapping(ctx, input) ==
    IF ctx.error THEN ctx
    ELSE LET fresh == ctx.keystream_pos >= CHACHA20_BLOCK_SIZE
             state == IF fresh
                      THEN SetAt(ctx.state, 12, Add32(At(ctx.state, 12), <<0, 1>>))
                      ELSE ctx.state
             pos == IF fresh THEN 0 ELSE ctx.keystream_pos
         IN  Then(IF fresh THEN chacha20_block(ctx.state) ELSE ctx.keystream,
                  LAMBDA keystream :
             [state |-> state, keystream |-> keystream,
              keystream_pos |-> pos + 1,
              output |-> Append(ctx.output,
                                CryptByte(At(input, Len(ctx.output)),
                                          At(keystream, pos))),
              error |-> FALSE])

\* one iteration of the loop of chacha20_crypt (lines 126-144)
ChaCha20CryptStep(ctx, input) ==
    IF ctx.error THEN ctx
    ELSE LET fresh == ctx.keystream_pos >= CHACHA20_BLOCK_SIZE
             state == IF fresh
                      THEN SetAt(ctx.state, 12, Add32(At(ctx.state, 12), <<0, 1>>))
                      ELSE ctx.state
             pos == IF fresh THEN 0 ELSE ctx.keystream_pos
         IN  Then(IF fresh THEN chacha20_block(ctx.state) ELSE ctx.keystream,
                  LAMBDA keystream :
             IF fresh /\ At(state, 12) = <<0, 0>>
             THEN [ctx EXCEPT !.state = state, !.keystream = keystream,
                              !.keystream_pos = 0, !.error = TRUE]
             ELSE [state |-> state, keystream |-> keystream,
                   keystream_pos |-> pos + 1,
                   output |-> Append(ctx.output,
                                     CryptByte(At(input, Len(ctx.output)),
                                               At(keystream, pos))),
                   error |-> FALSE])

\* n iterations of the loop of chacha20_crypt, taken in eight runs, each from what the run
\* before has left; after the error return no iteration changes
\* anything
RECURSIVE ChaCha20CryptSteps(_, _, _)
ChaCha20CryptSteps(ctx, input, n) ==
    IF n = 0 THEN ctx
    ELSE IF n = 1 THEN ChaCha20CryptStep(ctx, input)
    ELSE LET s1 == ChaCha20CryptSteps(ctx, input, (n + 7) \div 8)
             s2 == ChaCha20CryptSteps(s1, input, (n + 6) \div 8)
             s3 == ChaCha20CryptSteps(s2, input, (n + 5) \div 8)
             s4 == ChaCha20CryptSteps(s3, input, (n + 4) \div 8)
             s5 == ChaCha20CryptSteps(s4, input, (n + 3) \div 8)
             s6 == ChaCha20CryptSteps(s5, input, (n + 2) \div 8)
             s7 == ChaCha20CryptSteps(s6, input, (n + 1) \div 8)
             s8 == ChaCha20CryptSteps(s7, input, n \div 8)
         IN  <<s1, s2, s3, s4, s5, s6, s7, s8>>[8]

chacha20_crypt(ctx, input) == ChaCha20CryptSteps(ctx, input, Len(input))

\* chacha20_encrypt (lines 221-290): [nonce:12][size:8 little-endian][data];
\* key and nonce both come from simple_hash of the caller's key
chacha20_encrypt(input, key) ==
    IF Len(key) = 0 THEN Failed(GSEA_ERROR_ARGS)
    ELSE Then(simple_hash(key), LAMBDA derived_key :
         Then(SubSeq(derived_key, 1, CHACHA20_NONCE_SIZE), LAMBDA nonce :
         Then(chacha20_init(derived_key, nonce, <<0, 1>>), LAMBDA init :
         Then(chacha20_crypt(init, input), LAMBDA ctx :
             IF ctx.error THEN Failed(GSEA_ERROR_ENCRYPTION)
             ELSE Returned(GSEA_SUCCESS,
                           nonce \o LittleEndian(Len(input), 8) \o ctx.output)))))

\* chacha20_decrypt (lines 292-366); malloc0 is what malloc(0) returns
chacha20_decrypt(input, key, malloc0) ==
    IF Len(key) = 0 THEN Failed(GSEA_ERROR_ARGS)
    ELSE IF Len(input) < CHACHA20_NONCE_SIZE + 8 THEN Failed(GSEA_ERROR_ENCRYPTION)
    ELSE LET nonce == SubSeq(input, 1, CHACHA20_NONCE_SIZE)
             orig_size == ReadLittleEndian(
                              SubSeq(input, CHACHA20_NONCE_SIZE + 1,
                                     CHACHA20_NONCE_SIZE + 8), 8)
             pos == CHACHA20_NONCE_SIZE + 8
         IN  IF pos + orig_size # Len(input) THEN Failed(GSEA_ERROR_ENCRYPTION)
             ELSE IF orig_size = 0 /\ malloc0 = "null" THEN Failed(GSEA_ERROR_MEMORY)
             ELSE Then(simple_hash(key), LAMBDA derived_key :
                  Then(chacha20_init(derived_key, nonce, <<0, 1>>), LAMBDA init :
                  Then(chacha20_crypt(init, SubSeq(input, pos + 1, Len(input))),
                       LAMBDA ctx :
                      IF ctx.error THEN Failed(GSEA_ERROR_ENCRYPTION)
                      ELSE Returned(GSEA_SUCCESS, ctx.output))))

SALSA20_KEY_SIZE == 32
SALSA20_NONCE_SIZE == 8
SALSA20_BLOCK_SIZE == 64

\* 0x61707865, 0x3320646e, 0x79622d32, 0x6b206574
SALSA20_CONSTANTS == <<<<24944, 30821>>, <<13088, 25710>>, <<31074, 11570>>, <<27424, 25972>>>>

\* salsa20_quarter_round on y[i0], y[i1], y[i2], y[i3] (lines 42-47): its
\* first two assignments in the order it makes them, then the other two
salsa20_quarter_round(y, i0, i1, i2, i3) ==
    Then(LET y1 == Xor32(At(y, i1), ROTL32(Add32(At(y, i0), At(y, i3)), 7))
             y2 == Xor32(At(y, i2), ROTL32(Add32(y1, At(y, i0)), 9))
         IN  <<y1, y2>>, LAMBDA h :
    Then(LET y3 == Xor32(At(y, i3), ROTL32(Add32(h[2], h[1]), 13))
             y0 == Xor32(At(y, i0), ROTL32(Add32(y3, h[2]), 18))
         IN  <<y3, y0>>, LAMBDA w :
        Array([k \in 1..16 |->
                  IF k = i0 + 1 THEN w[2]
                  ELSE IF k = i1 + 1 THEN h[1]
                  ELSE IF k = i2 + 1 THEN h[2]
                  ELSE IF k = i3 + 1 THEN w[1]
                  ELSE y[k]], 16)))

\* the salsa20_quarter_round calls of salsa20_column_round (lines 62-67)
\* and, after them, of salsa20_row_round (lines 52-57)
Salsa20QuarterRounds ==
    <<<<0, 4, 8, 12>>, <<5, 9, 13, 1>>, <<10, 14, 2, 6>>, <<15, 3, 7, 11>>,
      <<0, 1, 2, 3>>, <<5, 6, 7, 4>>, <<10, 11, 8, 9>>, <<15, 12, 13, 14>>>>

\* calls first..last of them, each on what the call before has left
RECURSIVE Salsa20QuarterRoundCalls(_, _, _)
Salsa20QuarterRoundCalls(y, first, last) ==
    IF first = last
    THEN salsa20_quarter_round(y, Salsa20QuarterRounds[first][1],
                               Salsa20QuarterRounds[first][2],
                               Salsa20QuarterRounds[first][3],
                               Salsa20QuarterRounds[first][4])
    ELSE LET s1 == Salsa20QuarterRoundCalls(y, first, (first + last) \div 2)
             s2 == Salsa20QuarterRoundCalls(s1, ((first + last) \div 2) + 1, last)
         IN  <<s1, s2>>[2]

salsa20_row_round(y) == Salsa20QuarterRoundCalls(y, 5, 8)

salsa20_column_round(x) == Salsa20QuarterRoundCalls(x, 1, 4)

salsa20_double_round(x) ==
    Then(salsa20_column_round(x), LAMBDA c : salsa20_row_round(c))

\* n iterations of the round loop, taken in eight runs, each from what the run
\* before has left
RECURSIVE Salsa20Rounds(_, _)
Salsa20Rounds(ctx, n) ==
    IF n = 0 THEN ctx
    ELSE IF n = 1 THEN salsa20_double_round(ctx)
    ELSE LET s1 == Salsa20Rounds(ctx, (n + 7) \div 8)
             s2 == Salsa20Rounds(s1, (n + 6) \div 8)
             s3 == Salsa20Rounds(s2, (n + 5) \div 8)
             s4 == Salsa20Rounds(s3, (n + 4) \div 8)
             s5 == Salsa20Rounds(s4, (n + 3) \div 8)
             s6 == Salsa20Rounds(s5, (n + 2) \div 8)
             s7 == Salsa20Rounds(s6, (n + 1) \div 8)
             s8 == Salsa20Rounds(s7, n \div 8)
         IN  <<s1, s2, s3, s4, s5, s6, s7, s8>>[8]

\* salsa20_block (lines 80-100)
salsa20_block(input) ==
    Then(Salsa20Rounds(input, 10), LAMBDA x :
    Then(Array([k \in 1..16 |-> Add32(x[k], input[k])], 16), LAMBDA sum :
        StoreWords(sum, 16)))

\* the uint64_t counter is the pair <<high word, low word>>
Increment64(counter) ==
    LET low == Add32(counter[2], <<0, 1>>)
    IN  <<IF low = <<0, 0>> THEN Add32(counter[1], <<0, 1>>) ELSE counter[1], low>>

\* salsa20_init (lines 102-144)
salsa20_init(key, nonce, counter) ==
    [state |-> <<SALSA20_CONSTANTS[1],
                 load32_le(key, 0), load32_le(key, 4),
                 load32_le(key, 8), load32_le(key, 12),
                 SALSA20_CONSTANTS[2],
                 load32_le(nonce, 0), load32_le(nonce, 4),
                 counter[2], counter[1],
                 SALSA20_CONSTANTS[3],
                 load32_le(key, 16), load32_le(key, 20),
                 load32_le(key, 24), load32_le(key, 28),
                 SALSA20_CONSTANTS[4]>>,
     counter |-> counter,
     keystream |-> <<>>,
     keystream_pos |-> SALSA20_BLOCK_SIZE,
     output |-> <<>>]

\* one iteration of the loop of salsa20_crypt (lines 151-166)
Salsa20CryptStep(ctx, input) ==
    LET fresh == ctx.keystream_pos >= SALSA20_BLOCK_SIZE
        counter == IF fresh THEN Increment64(ctx.counter) ELSE ctx.counter
        state == IF fresh
                 THEN SetAt(SetAt(ctx.state, 8, counter[2]), 9, counter[1])
                 ELSE ctx.state
        pos == IF fresh THEN 0 ELSE ctx.keystream_pos
    IN  Then(IF fresh THEN salsa20_block(ctx.state) ELSE ctx.keystream,
             LAMBDA keystream :
        [state |-> state, counter |-> counter, keystream |-> keystream,
         keystream_pos |-> pos + 1,
         output |-> Append(ctx.output,
                           CryptByte(At(input, Len(ctx.output)),
                                     At(keystream, pos)))])

\* n iterations of the loop of salsa20_crypt, taken in eight runs, each from what the run
\* before has left
RECURSIVE Salsa20CryptSteps(_, _, _)
Salsa20CryptSteps(ctx, input, n) ==
    IF n = 0 THEN ctx
    ELSE IF n = 1 THEN Salsa20CryptStep(ctx, input)
    ELSE LET s1 == Salsa20CryptSteps(ctx, input, (n + 7) \div 8)
             s2 == Salsa20CryptSteps(s1, input, (n + 6) \div 8)
             s3 == Salsa20CryptSteps(s2, input, (n + 5) \div 8)
             s4 == Salsa20CryptSteps(s3, input, (n + 4) \div 8)
             s5 == Salsa20CryptSteps(s4, input, (n + 3) \div 8)
             s6 == Salsa20CryptSteps(s5, input, (n + 2) \div 8)
             s7 == Salsa20CryptSteps(s6, input, (n + 1) \div 8)
             s8 == Salsa20CryptSteps(s7, input, n \div 8)
         IN  <<s1, s2, s3, s4, s5, s6, s7, s8>>[8]

salsa20_crypt(ctx, input) == Salsa20CryptSteps(ctx, input, Len(input)).output

\* salsa20_encrypt (lines 238-301): [nonce:8][size:8 little-endian][data]
salsa20_encrypt(input, key) ==
    IF Len(key) = 0 \/ Len(input) = 0 THEN Failed(GSEA_ERROR_ARGS)
    ELSE Then(simple_hash(key), LAMBDA derived_key :
         Then(SubSeq(derived_key, 1, SALSA20_NONCE_SIZE), LAMBDA nonce :
         Then(salsa20_init(derived_key, nonce, <<<<0, 0>>, <<0, 0>>>>), LAMBDA ctx :
         Then(salsa20_crypt(ctx, input), LAMBDA data :
             Returned(GSEA_SUCCESS,
                      nonce \o LittleEndian(Len(input), 8) \o data)))))

\* salsa20_decrypt (lines 303-367); malloc0 is what malloc(0) returns
salsa20_decrypt(input, key, malloc0) ==
    LET min_size == SALSA20_NONCE_SIZE + 8
    IN  IF Len(key) = 0 \/ Len(input) < min_size THEN Failed(GSEA_ERROR_ARGS)
        ELSE LET nonce == SubSeq(input, 1, SALSA20_NONCE_SIZE)
                 orig_size == ReadLittleEndian(
                                  SubSeq(input, SALSA20_NONCE_SIZE + 1, min_size), 8)
             IN  IF orig_size # Len(input) - min_size
                 THEN Failed(GSEA_ERROR_ENCRYPTION)
                 ELSE IF orig_size = 0 /\ malloc0 = "null"
                 THEN Failed(GSEA_ERROR_MEMORY)
                 ELSE Then(simple_hash(key), LAMBDA derived_key :
                      Then(salsa20_init(derived_key, nonce, <<<<0, 0>>, <<0, 0>>>>),
                           LAMBDA ctx :
                      Then(salsa20_crypt(ctx, SubSeq(input, min_size + 1, Len(input))),
                           LAMBDA data :
                          Returned(GSEA_SUCCESS, data))))

Ciphers == {"chacha20", "salsa20", "rc4"}

Encrypt(cipher, input, key) ==
    CASE cipher = "chacha20" -> chacha20_encrypt(input, key)
      [] cipher = "salsa20" -> salsa20_encrypt(input, key)
      [] cipher = "rc4" -> rc4_encrypt(input, key)

Decrypt(cipher, input, key, malloc0) ==
    CASE cipher = "chacha20" -> chacha20_decrypt(input, key, malloc0)
      [] cipher = "salsa20" -> salsa20_decrypt(input, key, malloc0)
      [] cipher = "rc4" -> rc4_decrypt(input, key, malloc0)

IdleCph ==
    [pc |-> "idle", cipher |-> "rc4", input |-> <<>>, key |-> <<>>,
     encrypted |-> <<>>, output |-> <<>>, output_null |-> TRUE,
     result |-> GSEA_SUCCESS]

\* a call of <cipher>_encrypt on the input buffer
CipherEncrypt ==
    /\ cph.pc = "call"
    /\ \E r \in {Encrypt(cph.cipher, cph.input, cph.key)} :
           cph' = IF r.result # GSEA_SUCCESS
                  THEN [cph EXCEPT !.pc = "done", !.result = r.result]
                  ELSE [cph EXCEPT !.pc = "encrypted", !.encrypted = r.data]
    /\ UNCHANGED <<lzVars, huff, rle, lzw, pipe, mem, dir>>

\* a call of <cipher>_decrypt, with the same key, on the buffer the
\* encryption returned
CipherDecrypt ==
    /\ cph.pc = "encrypted"
    /\ \E malloc0 \in MallocZeroOutcomes :
          \E r \in {Decrypt(cph.cipher, cph.encrypted, cph.key, malloc0)} :
              cph' = [cph EXCEPT !.pc = "done", !.result = r.result,
                                 !.output = r.data, !.output_null = r.null]
    /\ UNCHANGED <<lzVars, huff, rle, lzw, pipe, mem, dir>>

(***************************************************************************)
(* Huffman on an input that is one byte repeated, with sizes and counters  *)
(* at their full width. A size_t n is <<n \div 2^16, n % 2^16>>, a         *)
(* uint32_t is <<high 16 bits, low 16 bits>> as in the ciphers, and the    *)
(* input, like the decoded output, is [symbol, count].                     *)
(***************************************************************************)
\* "freq[input[i]]++" count times on a uint32_t that was 0 (lines 193-197)
RunFrequency(count) == <<count[1] % 65536, count[2]>>

\* memcpy of a size_t below 2^40 into 8 bytes, and back
SizeBytes(n) ==
    <<n[2] % 256, n[2] \div 256, n[1] % 256, (n[1] \div 256) % 256,
      n[1] \div 65536, 0, 0, 0>>

ReadSize(bytes) ==
    <<bytes[3] + (256 * bytes[4]) + (65536 * bytes[5]), bytes[1] + (256 * bytes[2])>>

\* huffman_compress (lines 188-228) on count copies of symbol: the tree has
\* a leaf for each non-zero frequency, and no root if there is none
huffman_compress_run(symbol, count) ==
    IF count = <<0, 0>>
    THEN [result |-> HUFFMAN_ERROR_INPUT, compressed |-> NoCompressed]
    ELSE Then(RunFrequency(count), LAMBDA frequency :
             IF frequency = <<0, 0>>
             THEN [result |-> HUFFMAN_ERROR_MEMORY, compressed |-> NoCompressed]
             ELSE [result |-> HUFFMAN_SUCCESS,
                   compressed |->
                       [data |-> <<symbol>>, size |-> 1, original_size |-> count,
                        freq_table |-> [s \in 0..(HUFFMAN_SYMBOLS - 1) |->
                                           IF s = symbol THEN frequency
                                           ELSE <<0, 0>>]]])

\* huffman_serialize (lines 345-377)
huffman_serialize_run(c) ==
    SizeBytes(c.original_size) \o LittleEndian(c.size, 8)
        \o StoreWords([k \in 1..HUFFMAN_SYMBOLS |-> c.freq_table[k - 1]],
                      HUFFMAN_SYMBOLS)
        \o c.data

\* huffman_deserialize (lines 379-425)
huffman_deserialize_run(input) ==
    IF Len(input) < 16 + HUFFMAN_SYMBOLS * 4
           \/ Len(input) # 16 + HUFFMAN_SYMBOLS * 4
                             + ReadLittleEndian(SubSeq(input, 9, 16), 8)
    THEN [result |-> HUFFMAN_ERROR_CORRUPT, compressed |-> NoCompressed]
    ELSE [result |-> HUFFMAN_SUCCESS,
          compressed |->
              [data |-> SubSeq(input, 17 + HUFFMAN_SYMBOLS * 4, Len(input)),
               size |-> ReadLittleEndian(SubSeq(input, 9, 16), 8),
               original_size |-> ReadSize(SubSeq(input, 1, 8)),
               freq_table |-> [s \in 0..(HUFFMAN_SYMBOLS - 1) |->
                                  load32_le(input, 16 + 4 * s)]]]

\* huffman_decompress (lines 276-301) on a table with at most one non-zero
\* frequency: no root, or a root that is a leaf and the memset of line 295
huffman_decompress_run(c) ==
    IF \A s \in DOMAIN c.freq_table : c.freq_table[s] = <<0, 0>>
    THEN [result |-> HUFFMAN_ERROR_MEMORY, data |-> <<>>]
    ELSE [result |-> HUFFMAN_SUCCESS,
          data |-> [symbol |-> CHOOSE s \in DOMAIN c.freq_table :
                                   c.freq_table[s] # <<0, 0>>,
                    count |-> c.original_size]]

\* compress_data, case COMP_HUFFMAN, on a repeated byte (lines 28-56)
HuffmanRunCompress ==
    /\ huff.pc = "run call"
    /\ \E r \in {huffman_compress_run(huff.input.symbol, huff.input.count)} :
          huff' = IF r.result # HUFFMAN_SUCCESS
                  THEN [huff EXCEPT !.pc = "run done",
                                    !.result = GSEA_ERROR_COMPRESSION]
                  ELSE [huff EXCEPT !.pc = "run compressed",
                                    !.compressed = r.compressed]
    /\ UNCHANGED <<lzVars, rle, lzw, cph, pipe, mem, dir>>

HuffmanRunSerialize ==
    /\ huff.pc = "run compressed"
    /\ huff' = [huff EXCEPT !.pc = "run serialized",
                            !.container = huffman_serialize_run(huff.compressed)]
    /\ UNCHANGED <<lzVars, rle, lzw, cph, pipe, mem, dir>>

\* decompress_data, case COMP_HUFFMAN (lines 108-116)
HuffmanRunDeserialize ==
    /\ huff.pc = "run serialized"
    /\ \E r \in {huffman_deserialize_run(huff.container)} :
          huff' = IF r.result # HUFFMAN_SUCCESS
                  THEN [huff EXCEPT !.pc = "run done",
                                    !.result = GSEA_ERROR_COMPRESSION]
                  ELSE [huff EXCEPT !.pc = "run deserialized",
                                    !.restored = r.compressed]
    /\ UNCHANGED <<lzVars, rle, lzw, cph, pipe, mem, dir>>

\* decompress_data, case COMP_HUFFMAN (lines 118-135)
HuffmanRunDecompress ==
    /\ huff.pc = "run deserialized"
    /\ \E r \in {huffman_decompress_run(huff.restored)} :
          huff' = IF r.result # HUFFMAN_SUCCESS
                  THEN [huff EXCEPT !.pc = "run done",
                                    !.result = GSEA_ERROR_COMPRESSION]
                  ELSE [huff EXCEPT !.pc = "run done", !.output = r.data,
                                    !.result = GSEA_SUCCESS]
    /\ UNCHANGED <<lzVars, rle, lzw, cph, pipe, mem, dir>>

\* chacha20_crypt taken one iteration at a time. used: the counter values
\* of the keystream blocks that bytes were XORed with, in order
ChaCha20CryptIterate ==
    /\ cph.pc = "crypt"
    /\ ~cph.ctx.error
    /\ Len(cph.ctx.output) < Len(cph.input)
    /\ \E next \in {ChaCha20CryptStep(cph.ctx, cph.input)} :
          cph' = [cph EXCEPT
                     !.ctx = next,
                     !.used = IF cph.ctx.keystream_pos >= CHACHA20_BLOCK_SIZE
                                  /\ ~next.error
                              THEN Append(@, At(cph.ctx.state, 12))
                              ELSE @]
    /\ UNCHANGED <<lzVars, huff, rle, lzw, pipe, mem, dir>>

\* "return CHACHA20_ERROR_INPUT" of line 138, "return CHACHA20_SUCCESS" of
\* line 146
ChaCha20CryptReturn ==
    /\ cph.pc = "crypt"
    /\ cph.ctx.error \/ Len(cph.ctx.output) = Len(cph.input)
    /\ cph' = [cph EXCEPT !.pc = "crypt returned",
                          !.result = IF cph.ctx.error THEN "CHACHA20_ERROR_INPUT"
                                     ELSE "CHACHA20_SUCCESS"]
    /\ UNCHANGED <<lzVars, huff, rle, lzw, pipe, mem, dir>>

(***************************************************************************)
(* The dispatchers of src/compression/compression.c. A call returns        *)
(* [result, data, null] like the ciphers.                                  *)
(***************************************************************************)
Algorithms == {"COMP_LZ77", "COMP_HUFFMAN", "COMP_RLE", "COMP_LZW"}

\* compress_data (lines 17-92)
compress_data(input, algorithm) ==
    CASE algorithm = "COMP_LZ77" ->
           Then(lz77_compress(input), LAMBDA f :
               IF f.result = GSEA_SUCCESS THEN Returned(GSEA_SUCCESS, f.output)
               ELSE Failed(f.result))
      [] algorithm = "COMP_HUFFMAN" ->
           Then(huffman_compress(input), LAMBDA r :
               IF r.result # HUFFMAN_SUCCESS THEN Failed(GSEA_ERROR_COMPRESSION)
               ELSE Returned(GSEA_SUCCESS, huffman_serialize(r.compressed)))
      [] algorithm = "COMP_RLE" ->
           Then(RleCompressLoop(
                    RleCompressBeginFrame([IdleRle EXCEPT !.input = input])),
                LAMBDA f :
               IF f.result # GSEA_SUCCESS THEN Failed(f.result)
               ELSE Returned(GSEA_SUCCESS, f.container))
      [] OTHER -> Failed(GSEA_ERROR_ARGS)

\* decompress_data (lines 97-172)
decompress_data(input, algorithm) ==
    CASE algorithm = "COMP_LZ77" ->
           Then(lz77_decompress(input), LAMBDA f :
               IF f.result = GSEA_SUCCESS
               THEN [result |-> GSEA_SUCCESS, data |-> f.output,
                     null |-> f.output_null]
               ELSE Failed(f.result))
      [] algorithm = "COMP_HUFFMAN" ->
           Then(huffman_deserialize(input), LAMBDA c :
               IF c.result # HUFFMAN_SUCCESS THEN Failed(GSEA_ERROR_COMPRESSION)
               ELSE Then(huffman_decompress(c.compressed), LAMBDA r :
                        IF r.result # HUFFMAN_SUCCESS
                        THEN Failed(GSEA_ERROR_COMPRESSION)
                        ELSE Returned(GSEA_SUCCESS, r.data)))
      [] algorithm = "COMP_RLE" ->
           Then(RleDecompressLoop(
                    RleDeserializeFrame([IdleRle EXCEPT !.container = input])),
                LAMBDA f :
               IF f.result # GSEA_SUCCESS THEN Failed(f.result)
               ELSE Returned(GSEA_SUCCESS, f.output))
      [] OTHER -> Failed(GSEA_ERROR_ARGS)

(***************************************************************************)
(* The encryption stage. main.c calls aes_encrypt and aes_decrypt, which   *)
(* src/encryption/aes.h declares; their definitions are not among the      *)
(* sources. They are taken from the specification's cipher dispatcher:     *)
(* "encrypt/decrypt(bytes, algorithm, key) route to the matching engine".  *)
(* The specification gives decryption no allocation outcome: an empty      *)
(* payload is returned as an empty buffer.                                 *)
(***************************************************************************)
aes_encrypt(input, algorithm, key) == Encrypt(algorithm, input, key)

aes_decrypt(input, algorithm, key) == Decrypt(algorithm, input, key, "pointer")

(***************************************************************************)
(* process_file_operations: src/main.c, lines 31-141                       *)
(***************************************************************************)
Operations == {"OP_COMPRESS", "OP_DECOMPRESS", "OP_ENCRYPT", "OP_DECRYPT"}

\* the operation sets parse_arguments lets through (arg_parser.c, 235-266)
OperationSets ==
    {ops \in SUBSET Operations :
        /\ ops # {}
        /\ ~({"OP_COMPRESS", "OP_DECOMPRESS"} \subseteq ops)
        /\ ~({"OP_ENCRYPT", "OP_DECRYPT"} \subseteq ops)}

\* lines 52-55
compress_first(ops) == "OP_COMPRESS" \in ops
encrypt_first(ops) == ~compress_first(ops) /\ "OP_ENCRYPT" \in ops
decrypt_first(ops) == "OP_DECRYPT" \in ops

\* faulty variant: decompression goes first whenever it is requested
DecompressFirstAlways(ops) == "OP_DECOMPRESS" \in ops

decompress_first(ops) == ~decrypt_first(ops) /\ "OP_DECOMPRESS" \in ops

\* the branch the if-chain of the first operation takes (lines 61-99)
FirstStage(ops) ==
    IF compress_first(ops) THEN "compress"
    ELSE IF decompress_first(ops) THEN "decompress"
    ELSE IF encrypt_first(ops) THEN "encrypt"
    ELSE IF decrypt_first(ops) THEN "decrypt"
    ELSE "none"

\* the second operation, if the test of lines 102-103 lets one run
SecondStage(ops) ==
    IF (compress_first(ops) \/ decrypt_first(ops))
          /\ ops \cap {"OP_ENCRYPT", "OP_DECOMPRESS"} # {}
    THEN IF "OP_ENCRYPT" \in ops THEN "encrypt" ELSE "decompress"
    ELSE "none"

\* the call a stage makes on the bytes of its input buffer
RunStage(stage, data, f) ==
    CASE stage = "compress" -> compress_data(data, f.comp_alg)
      [] stage = "decompress" -> decompress_data(data, f.comp_alg)
      [] stage = "encrypt" -> aes_encrypt(data, f.enc_alg, f.key)
      [] stage = "decrypt" -> aes_decrypt(data, f.enc_alg, f.key)

\* faulty variant: a stage's error code is not looked at
StageFailedNever(result) == FALSE

\* "if (result != GSEA_SUCCESS) { ...; goto cleanup; }"
StageFailed(result) == result # GSEA_SUCCESS

\* calls: the stages invoked so far, each with the bytes it was given and
\* what it returned; writes: the buffers write_file was called with;
\* source: the run that wrote the file this run has read
NoSource == [operations |-> {}, input |-> <<>>]

IdlePipe ==
    [pc |-> "idle", operations |-> {}, comp_alg |-> "COMP_LZ77",
     enc_alg |-> "rc4", key |-> <<>>, input |-> <<>>, intermediate |-> <<>>,
     output |-> <<>>, current_input |-> "input", current_output |-> "intermediate",
     calls |-> <<>>, writes |-> <<>>, result |-> GSEA_SUCCESS,
     source |-> NoSource]

\* read_file has filled the input buffer (lines 33-58)
PipeReadFrame(ops, comp_alg, enc_alg, key, bytes, source) ==
    [IdlePipe EXCEPT !.pc = "read", !.operations = ops, !.comp_alg = comp_alg,
                     !.enc_alg = enc_alg, !.key = key, !.input = bytes,
                     !.source = source]

CurrentInput(f) ==
    CASE f.current_input = "input" -> f.input
      [] f.current_input = "intermediate" -> f.intermediate
      [] f.current_input = "output" -> f.output

\* cleanup: the three buffers are freed and result is returned (lines 135-141)
PipeCleanup(f, result) == [f EXCEPT !.pc = "returned", !.result = result]

\* the first operation (lines 61-99): compression and decompression fill
\* the intermediate buffer, encryption and decryption the output buffer
PipeFirstStage ==
    /\ pipe.pc = "read"
    /\ \E stage \in {FirstStage(pipe.operations)} :
       \E r \in {RunStage(stage, CurrentInput(pipe), pipe)} :
       LET called == [pipe EXCEPT
                         !.calls = Append(@, [stage |-> stage,
                                              data |-> CurrentInput(pipe),
                                              result |-> r.result,
                                              output |-> r.data])]
       IN  pipe' =
             IF StageFailed(r.result) THEN PipeCleanup(called, r.result)
             ELSE IF stage \in {"compress", "decompress"}
             THEN [called EXCEPT !.pc = "first_done", !.intermediate = r.data,
                                 !.current_input = "intermediate",
                                 !.current_output = "output"]
             ELSE [called EXCEPT !.pc = "first_done", !.output = r.data,
                                 !.current_input = "output"]
    /\ UNCHANGED <<lzVars, huff, rle, lzw, cph, mem, dir>>

\* the second operation (lines 102-121)
PipeSecondStage ==
    /\ pipe.pc = "first_done"
    /\ SecondStage(pipe.operations) # "none"
    /\ \E stage \in {SecondStage(pipe.operations)} :
       \E r \in {RunStage(stage, CurrentInput(pipe), pipe)} :
       LET called == [pipe EXCEPT
                         !.calls = Append(@, [stage |-> stage,
                                              data |-> CurrentInput(pipe),
                                              result |-> r.result,
                                              output |-> r.data])]
       IN  pipe' =
             IF StageFailed(r.result) THEN PipeCleanup(called, r.result)
             ELSE IF pipe.current_output = "output"
             THEN [called EXCEPT !.pc = "second_done", !.output = r.data,
                                 !.current_input = "output"]
             ELSE [called EXCEPT !.pc = "second_done", !.intermediate = r.data,
                                 !.current_input = "intermediate"]
    /\ UNCHANGED <<lzVars, huff, rle, lzw, cph, mem, dir>>

\* write_file on the current buffer, the file system accepting it, then
\* cleanup (lines 124-141)
PipeWrite ==
    /\ \/ pipe.pc = "second_done"
       \/ pipe.pc = "first_done" /\ SecondStage(pipe.operations) = "none"
    /\ pipe' = PipeCleanup([pipe EXCEPT !.writes = Append(@, CurrentInput(pipe))],
                           GSEA_SUCCESS)
    /\ UNCHANGED <<lzVars, huff, rle, lzw, cph, mem, dir>>

\* the operation sets that undo: no compression, no encryption
RestoringSets == {ops \in OperationSets : ops \subseteq {"OP_DECOMPRESS", "OP_DECRYPT"}}

\* the program is run again, with the same algorithms and key, on the file
\* a successful run has written
PipeRunOnWritten ==
    /\ pipe.pc = "returned"
    /\ pipe.result = GSEA_SUCCESS
    /\ pipe.source = NoSource
    /\ \E ops \in RestoringSets :
          pipe' = PipeReadFrame(ops, pipe.comp_alg, pipe.enc_alg, pipe.key,
                                pipe.writes[1],
                                [operations |-> pipe.operations,
                                 input |-> pipe.input])
    /\ UNCHANGED <<lzVars, huff, rle, lzw, cph, mem, dir>>

(***************************************************************************)
(* The caller's output buffer: file_buffer_t {data, size, capacity}        *)
(* (common.h). data is 0 for NULL, or the number of a heap block; heap[b]  *)
(* is "live", "released" (given to free, or moved by realloc) or "double   *)
(* free". fail names the allocation that fails during the call: "malloc",  *)
(* the one whose result is stored in output->data; "realloc", the first    *)
(* realloc of output->data; "engine", one inside the Huffman or RLE engine *)
(* or its serializer; "none". A failure the call does not come to is as    *)
(* "none".                                                                 *)
(***************************************************************************)
ZeroBuffer == [data |-> 0, size |-> 0, capacity |-> 0]

AllocationFailures == {"none", "malloc", "realloc", "engine"}

IdleMem ==
    [pc |-> "idle", fn |-> "compress_data", algorithm |-> "COMP_LZ77",
     cipher |-> "rc4", input |-> <<>>, key |-> <<>>, pre |-> ZeroBuffer,
     output |-> ZeroBuffer, bytes |-> <<>>, heap |-> <<>>, fail |-> "none",
     result |-> GSEA_SUCCESS]

MemReturn(f, result) == [f EXCEPT !.pc = "returned", !.result = result]

\* output->data = malloc(capacity) has failed: data is NULL
MemMallocFailed(f, size, capacity) ==
    MemReturn([f EXCEPT !.output = [data |-> 0, size |-> size,
                                    capacity |-> capacity]],
              GSEA_ERROR_MEMORY)

\* the output buffer holds a fresh block with these bytes
MemFilled(f, bytes, capacity) ==
    MemReturn([f EXCEPT !.heap = Append(@, "live"),
                        !.output = [data |-> Len(f.heap) + 1,
                                    size |-> Len(bytes),
                                    capacity |-> capacity],
                        !.bytes = bytes],
              GSEA_SUCCESS)

\* faulty variant: the block is freed and output->data still points to it
MemFreedDangling(f, size, capacity, result) ==
    MemReturn([f EXCEPT !.heap = Append(@, "released"),
                        !.output = [data |-> Len(f.heap) + 1, size |-> size,
                                    capacity |-> capacity]],
              result)

\* "free(output->data); output->data = NULL; return <error>" on the block
\* the call has allocated, size bytes of it written
MemFreed(f, size, capacity, result) ==
    MemReturn([f EXCEPT !.heap = Append(@, "released"),
                        !.output = [data |-> 0, size |-> size,
                                    capacity |-> capacity]],
              result)

\* write_token's growth of the buffer (lz77.c:96-102), repeated until the
\* container fits
RECURSIVE Lz77GrownCapacity(_, _)
Lz77GrownCapacity(capacity, size) ==
    IF size <= capacity THEN capacity
    ELSE Lz77GrownCapacity(IF capacity < 8192 THEN 8192 ELSE capacity * 2, size)

\* lz77_compress on the caller's buffer (lines 125-186). A successful
\* realloc is taken to move the block.
Lz77CompressCall(f) ==
    IF Len(f.input) = 0 THEN MemReturn(f, GSEA_ERROR_ARGS)
    ELSE \* lines 132-138
         LET capacity == Len(f.input) + (Len(f.input) \div 10) + 1024
         IN  IF f.fail = "malloc" THEN MemMallocFailed(f, 0, capacity)
             ELSE Then(lz77_compress(f.input), LAMBDA c :
                 IF Len(c.output) <= capacity
                 THEN MemFilled(f, c.output, capacity)
                 ELSE IF f.fail = "realloc"
                 THEN \* write_token returns GSEA_ERROR_MEMORY at the first
                      \* token that does not fit (lines 171-175)
                      MemFreed(f, 8 + 4 * ((capacity - 8) \div 4), capacity,
                               GSEA_ERROR_COMPRESSION)
                 ELSE MemFilled([f EXCEPT !.heap = Append(@, "released")],
                                c.output,
                                Lz77GrownCapacity(capacity, Len(c.output))))

\* output->size when the decoding loop of lz77_decompress is left
RECURSIVE Lz77DWritten(_)
Lz77DWritten(f) ==
    IF f.pc = "done" \/ ~Lz77DMore(f) THEN Len(f.output)
    ELSE Then(Lz77DTokenFrame(f), LAMBDA n :
             IF n.pc = "done" THEN Len(f.output) ELSE Lz77DWritten(n))

\* lz77_decompress on the caller's buffer (lines 189-274). The realloc of
\* lines 230-240 is not reached: a token starts with size < orig_size and
\* adds at most 256 bytes, and capacity is orig_size + 1024.
Lz77DecompressCall(f) ==
    IF Len(f.input) < 12 THEN MemReturn(f, GSEA_ERROR_ARGS)
    ELSE LET orig_size == ReadBigEndian(SubSeq(f.input, 1, 8), 8)
         IN  IF orig_size = 0
             THEN MemReturn([f EXCEPT !.output.size = 0,
                                      !.output.data = 0], GSEA_SUCCESS)
             ELSE IF f.fail = "malloc"
             THEN MemMallocFailed(f, 0, orig_size + 1024)
             ELSE Then(lz77_decompress(f.input), LAMBDA d :
                 IF d.result = GSEA_SUCCESS
                 THEN MemFilled(f, d.output, orig_size + 1024)
                 ELSE MemFreed(f,
                               Lz77DWritten(Lz77DBeginFrame(
                                   [IdleDecompress EXCEPT !.input = f.input])),
                               orig_size + 1024, d.result))

\* "output->data = serialized; output->size = ...; output->capacity = ..."
\* (compression.c:51-53 and the like); data is NULL where the engine
\* returned no block
MemAssigned(f, r) ==
    IF r.null
    THEN MemReturn([f EXCEPT !.output = ZeroBuffer, !.bytes = <<>>],
                   GSEA_SUCCESS)
    ELSE MemFilled(f, r.data, Len(r.data))

\* faulty variant: an unknown selector clears the output buffer
CompressDataCallClearing(f) ==
    CASE f.algorithm = "COMP_LZ77" -> Lz77CompressCall(f)
      [] f.algorithm \in {"COMP_HUFFMAN", "COMP_RLE"} ->
           IF f.fail = "engine" THEN MemReturn(f, GSEA_ERROR_COMPRESSION)
           ELSE Then(compress_data(f.input, f.algorithm), LAMBDA r :
                    IF r.result # GSEA_SUCCESS THEN MemReturn(f, r.result)
                    ELSE MemAssigned(f, r))
      [] OTHER -> MemReturn([f EXCEPT !.output = ZeroBuffer], GSEA_ERROR_ARGS)

\* compress_data on the caller's buffer (lines 17-92)
CompressDataCall(f) ==
    CASE f.algorithm = "COMP_LZ77" -> Lz77CompressCall(f)
      [] f.algorithm \in {"COMP_HUFFMAN", "COMP_RLE"} ->
           IF f.fail = "engine" THEN MemReturn(f, GSEA_ERROR_COMPRESSION)
           ELSE Then(compress_data(f.input, f.algorithm), LAMBDA r :
                    IF r.result # GSEA_SUCCESS THEN MemReturn(f, r.result)
                    ELSE MemAssigned(f, r))
      [] OTHER -> MemReturn(f, GSEA_ERROR_ARGS)

\* decompress_data on the caller's buffer (lines 97-172)
DecompressDataCall(f) ==
    CASE f.algorithm = "COMP_LZ77" -> Lz77DecompressCall(f)
      [] f.algorithm \in {"COMP_HUFFMAN", "COMP_RLE"} ->
           IF f.fail = "engine" THEN MemReturn(f, GSEA_ERROR_COMPRESSION)
           ELSE Then(decompress_data(f.input, f.algorithm), LAMBDA r :
                    IF r.result # GSEA_SUCCESS THEN MemReturn(f, r.result)
                    ELSE MemAssigned(f, r))
      [] OTHER -> MemReturn(f, GSEA_ERROR_ARGS)

\* total_size of the encrypt functions (rc4.c:164, chacha20.c:245,
\* salsa20.c:262)
EncryptedSize(cipher, size) ==
    CASE cipher = "rc4" -> 8 + size
      [] cipher = "chacha20" -> CHACHA20_NONCE_SIZE + 8 + size
      [] cipher = "salsa20" -> SALSA20_NONCE_SIZE + 8 + size

\* rc4_encrypt, chacha20_encrypt, salsa20_encrypt on the caller's buffer:
\* the argument checks come before the malloc, the errors of init and
\* crypt after it
EncryptCall(f) ==
    Then(Encrypt(f.cipher, f.input, f.key), LAMBDA r :
        IF r.result = GSEA_ERROR_ARGS THEN MemReturn(f, GSEA_ERROR_ARGS)
        ELSE IF f.fail = "malloc"
        THEN MemReturn([f EXCEPT !.output.data = 0], GSEA_ERROR_MEMORY)
        ELSE IF r.result # GSEA_SUCCESS
        THEN MemFreed(f, EncryptedSize(f.cipher, Len(f.input)),
                      EncryptedSize(f.cipher, Len(f.input)), r.result)
        ELSE MemFilled(f, r.data, Len(r.data)))

\* rc4_decrypt, chacha20_decrypt, salsa20_decrypt on the caller's buffer:
\* the argument and size checks come before the malloc; malloc(0) may
\* return NULL without having failed
DecryptCall(f, malloc0) ==
    Then(Decrypt(f.cipher, f.input, f.key,
                 IF f.fail = "malloc" THEN "null" ELSE malloc0), LAMBDA r :
        IF r.result \in {GSEA_ERROR_ARGS, GSEA_ERROR_ENCRYPTION}
        THEN MemReturn(f, r.result)
        ELSE IF f.fail = "malloc" \/ r.result = GSEA_ERROR_MEMORY
        THEN MemReturn([f EXCEPT !.output.data = 0], GSEA_ERROR_MEMORY)
        ELSE MemFilled(f, r.data, Len(r.data)))

EntryPoints ==
    {"lz77_compress", "lz77_decompress", "compress_data", "decompress_data",
     "encrypt", "decrypt"}

\* the entry point is called and returns
MemCall ==
    /\ mem.pc = "call"
    /\ \E fail \in AllocationFailures, malloc0 \in MallocZeroOutcomes :
       \E f \in {[mem EXCEPT !.fail = fail]} :
          mem' = CASE f.fn = "lz77_compress" -> Lz77CompressCall(f)
                   [] f.fn = "lz77_decompress" -> Lz77DecompressCall(f)
                   [] f.fn = "compress_data" -> CompressDataCall(f)
                   [] f.fn = "decompress_data" -> DecompressDataCall(f)
                   [] f.fn = "encrypt" -> EncryptCall(f)
                   [] f.fn = "decrypt" -> DecryptCall(f, malloc0)
    /\ UNCHANGED <<lzVars, huff, rle, lzw, cph, pipe, dir>>

\* free_buffer (file_manager.c:134-141) on the output buffer, as cleanup
\* of process_file_operations calls it (main.c:135-140)
free_buffer(f) ==
    IF f.output.data = 0 THEN f
    ELSE [f EXCEPT !.heap[f.output.data] =
                       IF @ = "live" THEN "released" ELSE "double free",
                   !.output = ZeroBuffer]

MemCleanup ==
    /\ mem.pc = "returned"
    /\ mem' = [free_buffer(mem) EXCEPT !.pc = "cleaned"]
    /\ UNCHANGED <<lzVars, huff, rle, lzw, cph, pipe, dir>>

(***************************************************************************)
(* process_directory (src/main.c, lines 164-258) and its thread pool       *)
(* (src/concurrency/thread_pool.c). What a thread does between             *)
(* pthread_mutex_lock(&pool->queue_mutex) and the unlock or the            *)
(* pthread_cond_wait that follows is one step. A task node is named by the *)
(* number of its task, NULL is 0. dir.results[n] is "listed", "queued",    *)
(* "running", "not submitted", or the code process_file_operations         *)
(* returned for task n. dir.accepted, dir.taken and dir.runs record the    *)
(* tasks in the order thread_pool_add_task accepted them, in the order the *)
(* workers dequeued them, and how often each was run; dir.refused and      *)
(* dir.skipped the tasks thread_pool_add_task refused and the files the    *)
(* submission loop gave up.                                                *)
(***************************************************************************)
PoolTasks == 1..(DirMaxFiles + PoolMaxExtra)

IdleDir ==
    [pc |-> "idle", file_count |-> 0, num_threads |-> 0, i |-> 0,
     head |-> 0, tail |-> 0, next |-> [n \in PoolTasks |-> 0], count |-> 0,
     active_threads |-> 0, shutdown |-> FALSE,
     worker |-> [w \in Workers |-> "none"], task |-> [w \in Workers |-> 0],
     code |-> [w \in Workers |-> GSEA_SUCCESS],
     results |-> <<>>, error_count |-> 0, result |-> GSEA_SUCCESS,
     error_mutex |-> 0, loaded |-> [w \in Workers |-> 0], main_loaded |-> 0,
     extra_left |-> 0, refused |-> {}, skipped |-> {},
     accepted |-> <<>>, taken |-> <<>>, runs |-> [n \in PoolTasks |-> 0]]

\* the codes a file's process_file_operations may return
TaskResults == {GSEA_SUCCESS, GSEA_ERROR_COMPRESSION}

\* pthread_cond_signal(&pool->queue_cond): one of the workers waiting on
\* it, if there is any, is woken and will test the queue again
QueueSignalled(worker) ==
    IF \A w \in Workers : worker[w] # "waiting" THEN {worker}
    ELSE {[worker EXCEPT ![w] = "idle"] : w \in {x \in Workers : worker[x] = "waiting"}}

\* faulty variant: the node is linked in front of the head
EnqueueInFront(d, task) ==
    [d EXCEPT !.next[task] = d.head,
              !.head = task,
              !.tail = IF d.tail # 0 THEN @ ELSE task,
              !.count = @ + 1]

\* thread_pool_add_task, the node linked to the tail (thread_pool.c:174-193)
Enqueue(d, task) ==
    [d EXCEPT !.next = IF d.tail # 0
                       THEN [@ EXCEPT ![d.tail] = task, ![task] = 0]
                       ELSE [@ EXCEPT ![task] = 0],
              !.head = IF d.tail # 0 THEN @ ELSE task,
              !.tail = task,
              !.count = @ + 1]

\* thread_pool_add_task from the lock to the unlock (thread_pool.c:179-198):
\* the frames it may leave; a pool that is shutting down takes no task
AddTask(d, task) ==
    IF d.shutdown THEN {d}
    ELSE {[Enqueue(d, task) EXCEPT !.worker = worker,
                                    !.accepted = Append(@, task),
                                    !.results[task] = "queued"] :
             worker \in QueueSignalled(d.worker)}

\* worker_thread takes the head of the list (thread_pool.c:59-68)
Dequeue(d, w) ==
    IF d.head = 0 THEN d
    ELSE [d EXCEPT !.worker[w] = "running",
                   !.task[w] = d.head,
                   !.results[d.head] = "running",
                   !.taken = Append(@, d.head),
                   !.head = d.next[d.head],
                   !.tail = IF d.next[d.head] = 0 THEN 0 ELSE @,
                   !.count = @ - 1,
                   !.active_threads = @ + 1]

\* list_directory has returned file_count files; with no file the function
\* returns, else the pool is created (main.c:173-202)
DirCreatePool ==
    /\ dir.pc = "listed"
    /\ dir' = IF dir.file_count = 0
              THEN [dir EXCEPT !.pc = "returned", !.result = GSEA_SUCCESS]
              ELSE [dir EXCEPT
                       !.pc = "submit",
                       !.worker = [w \in Workers |->
                                      IF w <= Min(dir.file_count, dir.num_threads)
                                      THEN "idle" ELSE "none"]]
    /\ UNCHANGED <<lzVars, huff, rle, lzw, cph, pipe, mem>>

\* one turn of the submission loop, its allocations succeeding:
\* thread_pool_add_task (main.c:205-240, thread_pool.c:161-201)
DirSubmit ==
    /\ dir.pc = "submit"
    /\ dir.i < dir.file_count
    /\ \E d \in AddTask(dir, dir.i + 1) : dir' = [d EXCEPT !.i = @ + 1]
    /\ UNCHANGED <<lzVars, huff, rle, lzw, cph, pipe, mem>>

\* one turn of the submission loop when malloc returns NULL for the
\* arguments or for the task node: "error_count++" without error_mutex, up
\* to its read of error_count (main.c:207-212, 235-239, thread_pool.c:168-172)
DirSubmitFailed ==
    /\ dir.pc = "submit"
    /\ dir.i < dir.file_count
    /\ dir' = [dir EXCEPT !.pc = "counting",
                          !.results[dir.i + 1] = "not submitted",
                          !.skipped = @ \cup {dir.i + 1},
                          !.main_loaded = dir.error_count]
    /\ UNCHANGED <<lzVars, huff, rle, lzw, cph, pipe, mem>>

\* ... and its write of error_count; the loop goes on
DirCountStore ==
    /\ dir.pc = "counting"
    /\ dir' = [dir EXCEPT !.pc = "submit",
                          !.error_count = dir.main_loaded + 1,
                          !.i = @ + 1]
    /\ UNCHANGED <<lzVars, huff, rle, lzw, cph, pipe, mem>>

\* another thread that holds the pool calls thread_pool_add_task
\* (thread_pool.c:161-201) while the pool exists
PoolAdd ==
    /\ dir.pc \in {"submit", "wait", "waiting", "destroy", "join"}
    /\ dir.extra_left > 0
    /\ \E d \in AddTask(dir, DirMaxFiles + dir.extra_left) :
          dir' = [d EXCEPT !.extra_left = @ - 1,
                           !.refused = IF dir.shutdown
                                       THEN @ \cup {DirMaxFiles + dir.extra_left}
                                       ELSE @]
    /\ UNCHANGED <<lzVars, huff, rle, lzw, cph, pipe, mem>>

\* thread_pool_wait (thread_pool.c:206-219): the test of the loop; the
\* caller goes on, or waits on idle_cond
DirWait ==
    /\ dir.pc \in {"submit", "wait"}
    /\ dir.i = dir.file_count
    /\ dir' = IF dir.count > 0 \/ dir.active_threads > 0
              THEN [dir EXCEPT !.pc = "waiting"]
              ELSE [dir EXCEPT !.pc = "destroy"]
    /\ UNCHANGED <<lzVars, huff, rle, lzw, cph, pipe, mem>>

\* faulty variant: no waiting worker is woken
QueueBroadcastNone(worker) == worker

\* pthread_cond_broadcast(&pool->queue_cond): every worker waiting on it is
\* woken (thread_pool.c:232)
QueueBroadcast(worker) ==
    [w \in Workers |-> IF worker[w] = "waiting" THEN "idle" ELSE worker[w]]

\* thread_pool_destroy, up to the broadcast (thread_pool.c:224-233)
DirDestroy ==
    /\ dir.pc = "destroy"
    /\ dir' = [dir EXCEPT !.pc = "join", !.shutdown = TRUE,
                          !.worker = QueueBroadcast(@)]
    /\ UNCHANGED <<lzVars, huff, rle, lzw, cph, pipe, mem>>

\* faulty variant: no task's result counts as an error
TaskFailedNever(result) == FALSE

\* "if (result != GSEA_SUCCESS)" of process_file_worker (main.c:152)
TaskFailed(result) == result # GSEA_SUCCESS

\* the pthread_join loop has met every worker; the rest of
\* thread_pool_destroy and the return of process_directory (thread_pool.c:
\* 235-257, main.c:247-257)
DirReturn ==
    /\ dir.pc = "join"
    /\ \A w \in Workers : dir.worker[w] \in {"none", "exited"}
    /\ dir' = [dir EXCEPT !.pc = "returned",
                          !.result = IF dir.error_count > 0 THEN GSEA_ERROR_FILE
                                     ELSE GSEA_SUCCESS]
    /\ UNCHANGED <<lzVars, huff, rle, lzw, cph, pipe, mem>>

\* worker_thread, from the lock to the unlock or the wait (thread_pool.c:
\* 46-70): it waits, leaves, or takes the head of the queue
WorkerTake(w) ==
    /\ dir.worker[w] = "idle"
    /\ dir' = IF dir.count = 0 /\ ~dir.shutdown
              THEN [dir EXCEPT !.worker[w] = "waiting"]
              ELSE IF dir.count = 0
              THEN [dir EXCEPT !.worker[w] = "exited"]
              ELSE Dequeue(dir, w)
    /\ UNCHANGED <<lzVars, huff, rle, lzw, cph, pipe, mem>>

\* process_file_worker: process_file_operations returns (main.c:146-151)
WorkerRun(w) ==
    /\ dir.worker[w] = "running"
    /\ \E result \in TaskResults :
          dir' = [dir EXCEPT !.worker[w] = "ran", !.code[w] = result,
                             !.results[dir.task[w]] = result,
                             !.runs[dir.task[w]] = @ + 1]
    /\ UNCHANGED <<lzVars, huff, rle, lzw, cph, pipe, mem>>

\* process_file_worker: the count of errors, under error_mutex (main.c:
\* 152-158), when no thread touches error_count without the mutex
WorkerCount(w) ==
    /\ dir.worker[w] = "ran"
    /\ dir' = [dir EXCEPT !.worker[w] = "finishing",
                          !.error_count = IF TaskFailed(dir.code[w]) THEN @ + 1
                                          ELSE @]
    /\ UNCHANGED <<lzVars, huff, rle, lzw, cph, pipe, mem>>

\* process_file_worker: pthread_mutex_lock(args->error_mutex) and the read
\* of "(*args->error_count)++" (main.c:152-154)
WorkerCountLoad(w) ==
    /\ dir.worker[w] = "ran"
    /\ TaskFailed(dir.code[w]) => dir.error_mutex = 0
    /\ dir' = IF TaskFailed(dir.code[w])
              THEN [dir EXCEPT !.worker[w] = "counting", !.error_mutex = w,
                               !.loaded[w] = dir.error_count]
              ELSE [dir EXCEPT !.worker[w] = "finishing"]
    /\ UNCHANGED <<lzVars, huff, rle, lzw, cph, pipe, mem>>

\* ... its write, and the unlock (main.c:154-155)
WorkerCountStore(w) ==
    /\ dir.worker[w] = "counting"
    /\ dir' = [dir EXCEPT !.worker[w] = "finishing", !.error_mutex = 0,
                          !.error_count = dir.loaded[w] + 1]
    /\ UNCHANGED <<lzVars, huff, rle, lzw, cph, pipe, mem>>

\* faulty variant: idle_cond is never signalled
IdleSignalledNever(d, pc) == pc

\* "if (pool->active_threads == 0 && pool->queue.count == 0)
\* pthread_cond_signal(&pool->idle_cond)" (thread_pool.c:82-84): where a
\* caller of thread_pool_wait stands after it, d being the pool after the
\* decrement
IdleSignalled(d, pc) ==
    IF d.active_threads = 0 /\ d.count = 0 /\ pc = "waiting" THEN "wait" ELSE pc

\* worker_thread after the task (thread_pool.c:76-85)
WorkerFinish(w) ==
    /\ dir.worker[w] = "finishing"
    /\ \E d \in {[dir EXCEPT !.worker[w] = "idle", !.active_threads = @ - 1]} :
          dir' = [d EXCEPT !.pc = IdleSignalled(d, @)]
    /\ UNCHANGED <<lzVars, huff, rle, lzw, cph, pipe, mem>>

(***************************************************************************)
(* rle_decompress (src/compression/rle.c, lines 88-132) on a structure of  *)
(* any content: rle.data is compressed->data, rle.size compressed->size    *)
(***************************************************************************)
\* the entry of rle_decompress and its malloc(compressed->original_size)
\* (lines 89-100)
RleEngineBegin ==
    /\ rle.pc = "engine call"
    /\ \E malloc0 \in MallocZeroOutcomes :
          rle' = IF rle.original_size = 0 /\ malloc0 = "null"
                 THEN [rle EXCEPT !.pc = "engine returned",
                                  !.result = RLE_ERROR_MEMORY]
                 ELSE [rle EXCEPT !.pc = "engine loop", !.in_pos = 0,
                                  !.output = <<>>]
    /\ UNCHANGED <<lzVars, huff, lzw, cph, pipe, mem, dir>>

\* one iteration of the loop of rle_decompress (lines 102-121)
RleEnginePair ==
    /\ rle.pc = "engine loop"
    /\ RleDecompressMore(rle)
    /\ rle' = IF rle.in_pos + 1 >= rle.size
                 \/ Len(rle.output) + At(rle.data, rle.in_pos) > rle.original_size
              THEN [rle EXCEPT !.pc = "engine returned", !.output = <<>>,
                               !.result = RLE_ERROR_CORRUPT]
              ELSE [rle EXCEPT
                       !.in_pos = @ + 2,
                       !.output = @ \o Rep(At(rle.data, rle.in_pos + 1),
                                           At(rle.data, rle.in_pos))]
    /\ UNCHANGED <<lzVars, huff, lzw, cph, pipe, mem, dir>>

\* the loop has ended: the size check and the return (lines 124-131)
RleEngineReturn ==
    /\ rle.pc = "engine loop"
    /\ ~RleDecompressMore(rle)
    /\ rle' = IF Len(rle.output) # rle.original_size
              THEN [rle EXCEPT !.pc = "engine returned", !.output = <<>>,
                               !.result = RLE_ERROR_CORRUPT]
              ELSE [rle EXCEPT !.pc = "engine returned",
                               !.result = RLE_SUCCESS]
    /\ UNCHANGED <<lzVars, huff, lzw, cph, pipe, mem, dir>>

(***************************************************************************)
(* Idle values of each part, for the specifications that leave it alone    *)
(***************************************************************************)
Lz77Idle ==
    /\ lz77c = [t \in Workers |-> IdleCompress]
    /\ lz77d = [t \in Workers |-> IdleDecompress]
    /\ hash_table = ZeroedTable
    /\ hash_owner = NoOwner
HuffIdle == huff = IdleHuff
RleIdle == rle = IdleRle
LzwIdle == lzw = IdleLzw
CphIdle == cph = IdleCph
PipeIdle == pipe = IdlePipe
MemIdle == mem = IdleMem
DirIdle == dir = IdleDir

(***************************************************************************)
(* SpecLZ77: one lz77_compress call (single-file mode: main calls          *)
(* process_file_operations itself), its output given to lz77_decompress    *)
(***************************************************************************)
Lz77Affixes == {<<>>, Rep(85, 4)}

Lz77LongInputs ==
    {pre \o Rep(0, WINDOW_SIZE + k) \o suf :
        pre \in Lz77Affixes, suf \in Lz77Affixes, k \in 1..(Lz77MaxPad + 1)}

Lz77Inputs == SeqsUpTo(Alphabet, Lz77MaxLen) \cup Lz77LongInputs

InitLZ77 ==
    /\ \E b \in Lz77Inputs :
          lz77c = [t \in Workers |->
                      IF t = 1 THEN [IdleCompress EXCEPT !.pc = "call", !.input = b]
                      ELSE IdleCompress]
    /\ lz77d = [t \in Workers |-> IdleDecompress]
    /\ hash_table = ZeroedTable
    /\ hash_owner = NoOwner
    /\ HuffIdle /\ RleIdle /\ LzwIdle /\ CphIdle /\ PipeIdle /\ MemIdle /\ DirIdle

NextLZ77 ==
    \E t \in Workers :
        \/ Lz77CompressBegin(t)
        \/ Lz77Probe(t)
        \/ Lz77Emit(t)
        \/ Lz77CompressReturn(t)
        \/ Lz77DecompressBegin(t)
        \/ Lz77DecompressToken(t)
        \/ Lz77DecompressReturn(t)

SpecLZ77 == InitLZ77 /\ [][NextLZ77]_vars

\* C1: for every non-empty input b, lz77_decompress applied to what
\* lz77_compress returned for b succeeds and returns exactly b.
C1_Lz77RoundTrip ==
    \A t \in Workers :
        /\ (lz77c[t].pc = "done" /\ Len(lz77c[t].input) > 0)
               => lz77c[t].result = GSEA_SUCCESS
        /\ lz77d[t].pc = "done"
               => /\ lz77d[t].result = GSEA_SUCCESS
                  /\ lz77d[t].output = lz77c[t].input

\* the tokens of a compressed stream, as <<offset, length>> pairs
Lz77TokenPairs(out) ==
    {<<At(out, 8 + 4 * k) * 256 + At(out, 9 + 4 * k), At(out, 10 + 4 * k)>> :
        k \in 0..(((Len(out) - 8) \div 4) - 1)}

\* C1's case: an input longer than the window whose last match ends at the
\* end of the input (pos has stepped past it) and which holds a match that
\* overlaps the current position, decoded back.
C1_Witness ==
    /\ lz77d[1].pc = "done"
    /\ lz77d[1].result = GSEA_SUCCESS
    /\ Len(lz77c[1].input) > WINDOW_SIZE
    /\ lz77c[1].pos = Len(lz77c[1].input) + 1
    /\ \E tk \in Lz77TokenPairs(lz77c[1].output) : tk[1] > 0 /\ tk[1] < tk[2]
    /\ lz77d[1].output = lz77c[1].input

(***************************************************************************)
(* SpecHuffman: compress_data(COMP_HUFFMAN) on an input, then              *)
(* decompress_data(COMP_HUFFMAN) on the container it returned              *)
(***************************************************************************)
HuffAlphabet == {(i * 85) % 256 : i \in 0..(HuffSymbols - 1)}

HuffInputs == SeqsUpTo(HuffAlphabet, HuffMaxLen)

InitHuffman ==
    /\ \E b \in HuffInputs : huff = [IdleHuff EXCEPT !.pc = "call", !.input = b]
    /\ Lz77Idle /\ RleIdle /\ LzwIdle /\ CphIdle /\ PipeIdle /\ MemIdle /\ DirIdle

NextHuffman ==
    \/ HuffmanCompress
    \/ HuffmanSerialize
    \/ HuffmanDeserialize
    \/ HuffmanDecompress

SpecHuffman == InitHuffman /\ [][NextHuffman]_vars

DistinctBytes(b) == {b[i] : i \in 1..Len(b)}

RleLongInputs ==
    {pre \o Rep(v, RLE_MAX_RUN_LENGTH * m + k) \o suf :
        pre \in SeqsUpTo(Alphabet, 1), suf \in SeqsUpTo(Alphabet, 1),
        v \in Alphabet, m \in 1..RleMaxSplits, k \in 0..1}

RleInputs == SeqsUpTo(Alphabet, RleMaxLen) \cup RleLongInputs

InitRLE ==
    /\ \E b \in RleInputs : rle = [IdleRle EXCEPT !.pc = "call", !.input = b]
    /\ Lz77Idle /\ HuffIdle /\ LzwIdle /\ CphIdle /\ PipeIdle /\ MemIdle /\ DirIdle

NextRLE ==
    \/ RleCompressBegin
    \/ RleCompressRun
    \/ RleCompressReturn
    \/ RleDeserialize
    \/ RleDecompressRun
    \/ RleDecompressReturn

SpecRLE == InitRLE /\ [][NextRLE]_vars

\* C3: for every non-empty input, decompress_data applied to what
\* compress_data(COMP_RLE) returned succeeds and returns the input, runs of
\* more than 255 identical bytes included.
C3_RleRoundTrip ==
    (rle.pc = "done" /\ Len(rle.input) > 0)
        => /\ rle.result = GSEA_SUCCESS
           /\ rle.output = rle.input

\* C3's case: a run longer than 255 bytes was split into several pairs of
\* the same value, the first of them with count 255, and decoded back
C3_Witness ==
    /\ rle.pc = "done"
    /\ rle.result = GSEA_SUCCESS
    /\ \E k \in 0..((Len(rle.data) \div 2) - 2) :
          /\ At(rle.data, 2 * k) = RLE_MAX_RUN_LENGTH
          /\ At(rle.data, 2 * k + 1) = At(rle.data, 2 * k + 3)
    /\ Len(rle.input) > RLE_MAX_RUN_LENGTH
    /\ rle.output = rle.input

(***************************************************************************)
(* SpecLZW: lzw_compress on an input, lzw_serialize, lzw_deserialize,      *)
(* lzw_decompress                                                          *)
(***************************************************************************)
\* byte n of a sequence in which every pair of neighbours is new: blocks of
\* 512 bytes a, a+d, a+1, a+1+d, ... for d = 2, 3, ...
LzwFreshPairByte(n) ==
    LET d == 2 + n \div 512
        a == (n % 512) \div 2
    IN  IF n % 2 = 0 THEN a ELSE (a + d) % 256

\* an input whose first bytes fill the dictionary one entry per byte, then
\* repeats the pair of the last entry made and goes on for a few bytes
LzwFillingInput(tail) ==
    LET fill == LZW_MAX_DICT_SIZE - LZW_INIT_DICT_SIZE
    IN  [n \in 1..fill |-> LzwFreshPairByte(n - 1)]
            \o <<LzwFreshPairByte(fill - 2), LzwFreshPairByte(fill - 1)>>
            \o tail

LzwInputs ==
    SeqsUpTo(Alphabet, LzwMaxLen)
        \cup {LzwFillingInput(tail) : tail \in NonEmptySeqsUpTo({0}, LzwMaxTail)}

InitLZW ==
    /\ \E b \in LzwInputs : lzw = [IdleLzw EXCEPT !.pc = "call", !.input = b]
    /\ Lz77Idle /\ HuffIdle /\ RleIdle /\ CphIdle /\ PipeIdle /\ MemIdle /\ DirIdle

NextLZW ==
    \/ LzwCompress
    \/ LzwSerialize
    \/ LzwDeserialize
    \/ LzwDecompress

SpecLZW == InitLZW /\ [][NextLZW]_vars

\* C4: for every non-empty input b, lzw_decompress(lzw_deserialize(
\* lzw_serialize(lzw_compress(b)))) runs to its end, succeeds and returns b,
\* also when a code equals the next code to be assigned and when the
\* dictionary is full.
C4_LzwRoundTrip ==
    (lzw.pc \in {"done", "aborted"} /\ Len(lzw.input) > 0)
        => /\ lzw.pc = "done"
           /\ lzw.result = LZW_SUCCESS
           /\ lzw.output = lzw.input

(***************************************************************************)
(* SpecCipher: <cipher>_encrypt on a plaintext and a key, then             *)
(* <cipher>_decrypt with the same key on what it returned                  *)
(***************************************************************************)
BytePattern(n, step) == [k \in 1..n |-> ((k - 1) * step) % 256]

\* short plaintexts, and plaintexts that end just before, at and just after
\* the end of a 64-byte keystream block
CipherPlaintexts ==
    SeqsUpTo(Alphabet, CipherMaxLen)
        \cup {BytePattern(CHACHA20_BLOCK_SIZE * b + d, 7) :
                 b \in 1..CipherMaxBlocks, d \in {-1, 0, 1}}

\* no key, one-byte keys, and keys as long as and longer than a derived key
CipherKeys ==
    SeqsUpTo(Alphabet, 1)
        \cup {BytePattern(n, 17) : n \in {RC4_KEY_SIZE, CHACHA20_KEY_SIZE + 1}}

InitCipher ==
    /\ \E c \in Ciphers, b \in CipherPlaintexts, k \in CipherKeys :
          cph = [IdleCph EXCEPT !.pc = "call", !.cipher = c,
                                !.input = b, !.key = k]
    /\ Lz77Idle /\ HuffIdle /\ RleIdle /\ LzwIdle /\ PipeIdle /\ MemIdle /\ DirIdle

NextCipher ==
    \/ CipherEncrypt
    \/ CipherDecrypt

SpecCipher == InitCipher /\ [][NextCipher]_vars

\* C5: for each of ChaCha20, Salsa20 and RC4, every non-empty plaintext b
\* and every non-empty key k: encrypting b with k succeeds, and decrypting
\* the result with k succeeds and returns exactly b.
C5_CipherRoundTrip ==
    (cph.pc = "done" /\ Len(cph.input) > 0 /\ Len(cph.key) > 0)
        => /\ cph.result = GSEA_SUCCESS
           /\ ~cph.output_null
           /\ cph.output = cph.input

\* C5's case: a plaintext of more than one keystream block, encrypted to
\* different bytes under a key longer than any derived key, and decrypted
\* back
C5_Witness ==
    /\ cph.pc = "done"
    /\ cph.result = GSEA_SUCCESS
    /\ Len(cph.input) > CHACHA20_BLOCK_SIZE
    /\ Len(cph.key) > CHACHA20_KEY_SIZE
    /\ Len(cph.encrypted) > Len(cph.input)
    /\ SubSeq(cph.encrypted, Len(cph.encrypted) - Len(cph.input) + 1,
              Len(cph.encrypted)) # cph.input
    /\ cph.output = cph.input

(***************************************************************************)
(* SpecWorkers: process_directory has queued one file per worker and the   *)
(* workers run lz77_compress side by side (main.c:206-240,                 *)
(* thread_pool.c:72-74). The read of a bucket and its overwrite are two    *)
(* steps of a call, and so is the memset of its entry.                     *)
(***************************************************************************)
WorkerInputs == NonEmptySeqsUpTo(Alphabet, WorkerMaxLen)

InitWorkers ==
    /\ \E b \in [Workers -> WorkerInputs] :
          lz77c = [t \in Workers |->
                      [IdleCompress EXCEPT !.pc = "call", !.input = b[t]]]
    /\ lz77d = [t \in Workers |-> IdleDecompress]
    /\ hash_table = ZeroedTable
    /\ hash_owner = NoOwner
    /\ HuffIdle /\ RleIdle /\ LzwIdle /\ CphIdle /\ PipeIdle /\ MemIdle /\ DirIdle

NextWorkers ==
    \E t \in Workers :
        \/ Lz77CompressBegin(t)
        \/ Lz77Probe(t)
        \/ Lz77Emit(t)
        \/ Lz77CompressReturn(t)

SpecWorkers == InitWorkers /\ [][NextWorkers]_vars

\* C8: the hash index belongs to one lz77_compress invocation: the bucket a
\* call has just read was last written (by memset or by a probe) by that
\* same call, never by a call running on another worker.
C8_BucketsPrivate ==
    \A t \in Workers :
        (lz77c[t].pc = "probed" /\ lz77c[t].probed)
            => BucketOwner(hash_owner, lz77c[t].hash) = t

\* C9: the bytes lz77_compress returns depend only on its input: they are
\* the bytes the call returns when it runs alone.
C9_OutputDependsOnInputOnly ==
    \A t \in Workers :
        lz77c[t].pc = "done" => lz77c[t].output = lz77_compress(lz77c[t].input).output

(***************************************************************************)
(* SpecPipeline: process_file_operations on a file that was read, for      *)
(* every operation set the argument parser lets through, then once more    *)
(* on the file it has written                                              *)
(***************************************************************************)
\* the shortest files, a file that is one run, and a file of distinct bytes
PipeInputs ==
    NonEmptySeqsUpTo(Alphabet, PipeMaxLen)
        \cup {Rep(0, PipeMaxRun), BytePattern(PipeMaxRun, 85)}

PipeKeys == {<<107>>, BytePattern(RC4_KEY_SIZE + 1, 17)}

InitPipeline ==
    /\ Lz77Idle /\ HuffIdle /\ RleIdle /\ LzwIdle /\ CphIdle
    /\ MemIdle /\ DirIdle
    /\ \E ops \in OperationSets, comp_alg \in Algorithms, enc_alg \in Ciphers,
          key \in PipeKeys, bytes \in PipeInputs :
          pipe = PipeReadFrame(ops, comp_alg, enc_alg, key, bytes, NoSource)

NextPipeline ==
    \/ PipeFirstStage
    \/ PipeSecondStage
    \/ PipeWrite
    \/ PipeRunOnWritten

SpecPipeline == InitPipeline /\ [][NextPipeline]_vars

\* the algorithms compress_data and decompress_data have a case for
DispatcherHandles == {"COMP_LZ77", "COMP_HUFFMAN", "COMP_RLE"}

C7_StageOrder ==
    pipe.pc = "returned" =>
        /\ "OP_COMPRESS" \in pipe.operations =>
              /\ pipe.calls[1].stage = "compress"
              /\ ("OP_ENCRYPT" \in pipe.operations
                      /\ pipe.calls[1].result = GSEA_SUCCESS) =>
                    /\ Len(pipe.calls) = 2
                    /\ pipe.calls[2].stage = "encrypt"
                    /\ pipe.calls[2].data = pipe.calls[1].output
        /\ "OP_DECRYPT" \in pipe.operations =>
              /\ pipe.calls[1].stage = "decrypt"
              /\ ("OP_DECOMPRESS" \in pipe.operations
                      /\ pipe.calls[1].result = GSEA_SUCCESS) =>
                    /\ Len(pipe.calls) = 2
                    /\ pipe.calls[2].stage = "decompress"
                    /\ pipe.calls[2].data = pipe.calls[1].output

\* C10: a first stage that returned an error is the only stage invoked,
\* write_file is not called and the run returns that error code; a second
\* stage that returned an error leaves write_file uncalled and its code is
\* the one returned; no stage is invoked twice
C10_AbortOnStageError ==
    /\ (Len(pipe.calls) >= 1 /\ pipe.calls[1].result # GSEA_SUCCESS) =>
          /\ Len(pipe.calls) = 1
          /\ pipe.writes = <<>>
          /\ pipe.pc = "returned"
          /\ pipe.result = pipe.calls[1].result
    /\ (Len(pipe.calls) >= 2 /\ pipe.calls[2].result # GSEA_SUCCESS) =>
          /\ pipe.writes = <<>>
          /\ pipe.pc = "returned"
          /\ pipe.result = pipe.calls[2].result
    /\ Len(pipe.calls) <= 2
    /\ Len(pipe.calls) = 2 => pipe.calls[1].stage # pipe.calls[2].stage

C10_Witness ==
    /\ pipe.pc = "returned"
    /\ Len(pipe.calls) = 2
    /\ pipe.calls[1].result = GSEA_SUCCESS
    /\ pipe.calls[2].result # GSEA_SUCCESS

(***************************************************************************)
(* SpecTampered: a codec compresses an input; its container is decoded as  *)
(* it is, or after it was damaged on the way to the decoder: its final     *)
(* byte removed, a byte appended, or the low byte of its declared original *)
(* size raised or lowered by one                                           *)
(***************************************************************************)
Front(c) == SubSeq(c, 1, Len(c) - 1)

\* size_byte is the C index of the low byte of the declared original size
Damaged(c, size_byte) ==
    {Front(c), c \o <<0>>}
        \cup {[c EXCEPT ![size_byte + 1] = (@ + d) % 256] : d \in {1, 255}}

\* lz77_decompress is called on a damaged copy of what lz77_compress returned
Lz77DecompressDamaged(t) ==
    /\ lz77c[t].pc = "done"
    /\ lz77c[t].result = GSEA_SUCCESS
    /\ lz77d[t].pc = "idle"
    /\ \E c \in Damaged(lz77c[t].output, 7) :
          lz77d' = [lz77d EXCEPT ![t] = Lz77DBeginFrame([@ EXCEPT !.input = c])]
    /\ UNCHANGED <<lz77c, hash_table, hash_owner, huff, rle, lzw, cph, pipe, mem, dir>>

HuffmanDamage ==
    /\ huff.pc = "serialized"
    /\ huff.container = huffman_serialize(huff.compressed)
    /\ \E c \in Damaged(huff.container, 0) : huff' = [huff EXCEPT !.container = c]
    /\ UNCHANGED <<lzVars, rle, lzw, cph, pipe, mem, dir>>

RleDamage ==
    /\ rle.pc = "serialized"
    /\ rle.container = rle_serialize(rle.buffer, Len(rle.buffer), Len(rle.input))
    /\ \E c \in Damaged(rle.container, 0) : rle' = [rle EXCEPT !.container = c]
    /\ UNCHANGED <<lzVars, huff, lzw, cph, pipe, mem, dir>>

LzwDamage ==
    /\ lzw.pc = "serialized"
    /\ lzw.container = lzw_serialize(lzw.codes, Len(lzw.input))
    /\ \E c \in Damaged(lzw.container, 0) : lzw' = [lzw EXCEPT !.container = c]
    /\ UNCHANGED <<lzVars, huff, rle, cph, pipe, mem, dir>>

TamperInputs == NonEmptySeqsUpTo(Alphabet, TamperMaxLen)

InitTampered ==
    /\ \E b \in TamperInputs, codec \in Algorithms :
          /\ lz77c = [t \in Workers |->
                         IF t = 1 /\ codec = "COMP_LZ77"
                         THEN [IdleCompress EXCEPT !.pc = "call", !.input = b]
                         ELSE IdleCompress]
          /\ huff = IF codec = "COMP_HUFFMAN"
                    THEN [IdleHuff EXCEPT !.pc = "call", !.input = b] ELSE IdleHuff
          /\ rle = IF codec = "COMP_RLE"
                   THEN [IdleRle EXCEPT !.pc = "call", !.input = b] ELSE IdleRle
          /\ lzw = IF codec = "COMP_LZW"
                   THEN [IdleLzw EXCEPT !.pc = "call", !.input = b] ELSE IdleLzw
    /\ lz77d = [t \in Workers |-> IdleDecompress]
    /\ hash_table = ZeroedTable
    /\ hash_owner = NoOwner
    /\ CphIdle /\ PipeIdle /\ MemIdle /\ DirIdle

NextTampered ==
    \/ \E t \in Workers :
          \/ Lz77CompressBegin(t)
          \/ Lz77Probe(t)
          \/ Lz77Emit(t)
          \/ Lz77CompressReturn(t)
          \/ Lz77DecompressBegin(t)
          \/ Lz77DecompressDamaged(t)
          \/ Lz77DecompressToken(t)
          \/ Lz77DecompressReturn(t)
    \/ HuffmanCompress
    \/ HuffmanSerialize
    \/ HuffmanDamage
    \/ HuffmanDeserialize
    \/ HuffmanDecompress
    \/ RleCompressBegin
    \/ RleCompressRun
    \/ RleCompressReturn
    \/ RleDamage
    \/ RleDeserialize
    \/ RleDecompressRun
    \/ RleDecompressReturn
    \/ LzwCompress
    \/ LzwSerialize
    \/ LzwDamage
    \/ LzwDeserialize
    \/ LzwDecompress

SpecTampered == InitTampered /\ [][NextTampered]_vars

\* C11: for each of LZ77, Huffman, RLE and LZW, decoding the container of a
\* non-empty input after its final byte was removed ends with an error,
\* never with success.
C11_TruncatedRejected ==
    /\ \A t \in Workers :
          (lz77d[t].pc = "done" /\ lz77d[t].input = Front(lz77c[t].output))
              => lz77d[t].result # GSEA_SUCCESS
    /\ (huff.pc = "done"
           /\ huff.container = Front(huffman_serialize(huff.compressed)))
          => huff.result # GSEA_SUCCESS
    /\ (rle.pc = "done"
           /\ rle.container
                 = Front(rle_serialize(rle.buffer, Len(rle.buffer), Len(rle.input))))
          => rle.result # GSEA_SUCCESS
    /\ (lzw.pc \in {"done", "aborted"}
           /\ lzw.container = Front(lzw_serialize(lzw.codes, Len(lzw.input))))
          => (lzw.pc = "done" /\ lzw.result # LZW_SUCCESS)

\* C11's case: an LZ77 container of more than one token, the last one a
\* match, was decoded without its final byte and the decoder reported the
\* cut token
C11_Witness ==
    /\ lz77d[1].pc = "done"
    /\ Len(lz77c[1].output) > 12
    /\ At(lz77c[1].output, Len(lz77c[1].output) - 2) >= MIN_MATCH_LENGTH
    /\ lz77d[1].input = Front(lz77c[1].output)
    /\ lz77d[1].result = GSEA_ERROR_COMPRESSION

\* C12: each of the LZ77, Huffman, RLE and LZW decoders returns success
\* only if the number of bytes it wrote equals the original size its
\* container declares, whether the container is well-formed or damaged.
C12_SizesValidated ==
    /\ \A t \in Workers :
          (lz77d[t].pc = "done" /\ lz77d[t].result = GSEA_SUCCESS)
              => Len(lz77d[t].output)
                   = ReadBigEndian(SubSeq(lz77d[t].input, 1, 8), 8)
    /\ (huff.pc = "done" /\ huff.result = GSEA_SUCCESS)
          => Len(huff.output) = huff.restored.original_size
    /\ (rle.pc = "done" /\ rle.result = GSEA_SUCCESS)
          => Len(rle.output) = rle.original_size
    /\ (lzw.pc = "done" /\ lzw.result = LZW_SUCCESS)
          => Len(lzw.output) = lzw.original_size

\* C13: compress_data routes each of the selectors LZ77, Huffman, RLE and
\* LZW to its engine and returns that engine's serialized container
\* (selector LZW: an LZW container), and decompress_data returns the
\* original bytes of a container compress_data produced with the same
\* selector.
C13_SelectorsRouted ==
    \A i \in 1..Len(pipe.calls) :
        /\ (pipe.calls[i].stage = "compress" /\ pipe.calls[i].data # <<>>) =>
              /\ pipe.calls[i].result = GSEA_SUCCESS
              /\ pipe.calls[i].output =
                   CASE pipe.comp_alg = "COMP_LZ77" ->
                          lz77_compress(pipe.calls[i].data).output
                     [] pipe.comp_alg = "COMP_HUFFMAN" ->
                          huffman_serialize(
                              huffman_compress(pipe.calls[i].data).compressed)
                     [] pipe.comp_alg = "COMP_RLE" ->
                          RleCompressLoop(RleCompressBeginFrame(
                              [IdleRle EXCEPT !.input = pipe.calls[i].data])).container
                     [] pipe.comp_alg = "COMP_LZW" ->
                          lzw_serialize(
                              LzwCompressReturnFrame(LzwCompressBytes(
                                  LzwCompressBeginFrame(
                                      [IdleLzw EXCEPT !.input = pipe.calls[i].data]),
                                  Len(pipe.calls[i].data) - 1)).codes,
                              Len(pipe.calls[i].data))
        /\ (pipe.calls[i].stage = "decompress"
              /\ pipe.operations = {"OP_DECOMPRESS"}
              /\ pipe.source.operations = {"OP_COMPRESS"}) =>
              /\ pipe.calls[i].result = GSEA_SUCCESS
              /\ pipe.calls[i].output = pipe.source.input

(***************************************************************************)
(* SpecBuffers: one call of an entry point on an output buffer that is     *)
(* zeroed, as process_file_operations passes it, or already holds a block; *)
(* any one allocation of the call may fail; then the caller's cleanup      *)
(***************************************************************************)
MemPlain == {<<>>, <<0>>, <<0, 0, 0, 0>>}

\* n bytes in which no three bytes in a row occur twice: lz77_compress
\* emits one token per byte
LiteralRun(n) ==
    [k \in 1..n |-> IF k <= 256 THEN k - 1 ELSE (2 * (k - 257)) % 256]

MemKeys == {<<>>, <<107>>}

MemPreBuffers == {ZeroBuffer, [data |-> 1, size |-> 3, capacity |-> 8]}

\* what a decoder is given: containers, damaged containers, other bytes
MemContainers(made, size_byte) ==
    MemPlain \cup {r.data : r \in {m \in made : m.result = GSEA_SUCCESS}}
        \cup UNION {Damaged(r.data, size_byte) :
                        r \in {m \in made : m.result = GSEA_SUCCESS}}

MemInputs(fn, algorithm, cipher, key) ==
    CASE fn = "lz77_compress" ->
           MemPlain \cup {LiteralRun(MemLiterals), LiteralRun(MemLiterals + 1)}
      [] fn \in {"compress_data", "encrypt"} -> MemPlain
      [] fn = "lz77_decompress" ->
           MemContainers({compress_data(b, "COMP_LZ77") : b \in MemPlain}, 7)
      [] fn = "decompress_data" ->
           MemContainers({compress_data(b, algorithm) : b \in MemPlain},
                         IF algorithm = "COMP_LZ77" THEN 7 ELSE 0)
      [] fn = "decrypt" ->
           MemContainers({Encrypt(cipher, b, key) : b \in MemPlain},
                         EncryptedSize(cipher, 0) - 8)

MemCalls ==
    {[fn |-> fn, algorithm |-> "COMP_LZ77", cipher |-> "rc4", key |-> <<>>] :
        fn \in {"lz77_compress", "lz77_decompress"}}
      \cup {[fn |-> fn, algorithm |-> a, cipher |-> "rc4", key |-> <<>>] :
               fn \in {"compress_data", "decompress_data"}, a \in Algorithms}
      \cup {[fn |-> fn, algorithm |-> "COMP_LZ77", cipher |-> c, key |-> k] :
               fn \in {"encrypt", "decrypt"}, c \in Ciphers, k \in MemKeys}

InitBuffers ==
    /\ Lz77Idle /\ HuffIdle /\ RleIdle /\ LzwIdle /\ CphIdle /\ PipeIdle
    /\ DirIdle
    /\ \E call \in MemCalls, pre \in MemPreBuffers :
       \E input \in MemInputs(call.fn, call.algorithm, call.cipher, call.key) :
          mem = [IdleMem EXCEPT
                    !.pc = "call", !.fn = call.fn,
                    !.algorithm = call.algorithm, !.cipher = call.cipher,
                    !.key = call.key, !.input = input, !.pre = pre,
                    !.output = pre,
                    !.heap = IF pre.data = 0 THEN <<>> ELSE <<"live">>]

NextBuffers ==
    \/ MemCall
    \/ MemCleanup

SpecBuffers == InitBuffers /\ [][NextBuffers]_vars

\* C14: compress_data and decompress_data called with a selector for which
\* no engine is wired return GSEA_ERROR_ARGS and leave the output buffer's
\* data, size and capacity (and the heap) as they were before the call.
C14_UnwiredSelectorLeavesOutput ==
    (mem.pc = "returned"
        /\ mem.fn \in {"compress_data", "decompress_data"}
        /\ mem.algorithm \notin DispatcherHandles) =>
        /\ mem.result = GSEA_ERROR_ARGS
        /\ mem.output = mem.pre
        /\ mem.heap = IF mem.pre.data = 0 THEN <<>> ELSE <<"live">>

\* C14's case: compress_data has returned from a call with selector LZW,
\* a non-empty input and an output buffer that held a block
C14_Witness ==
    /\ mem.pc = "returned"
    /\ mem.fn = "compress_data"
    /\ mem.algorithm = "COMP_LZW"
    /\ mem.input # <<>>
    /\ mem.pre.data # 0
    /\ mem.result = GSEA_ERROR_ARGS

(***************************************************************************)
(* SpecCounter: chacha20_crypt on a context whose block counter starts at  *)
(* 1, as chacha20_encrypt sets it, or at one of the last values of the     *)
(* 32-bit counter                                                          *)
(***************************************************************************)
CounterStarts == {<<0, 1>>, <<65535, 65533>>, <<65535, 65534>>, <<65535, 65535>>}

CounterLengths ==
    {0, 1} \cup {CHACHA20_BLOCK_SIZE * k + d : k \in 1..CounterMaxBlocks, d \in {0, 1}}

InitCounter ==
    /\ Lz77Idle /\ HuffIdle /\ RleIdle /\ LzwIdle /\ PipeIdle /\ MemIdle /\ DirIdle
    /\ \E counter \in CounterStarts, n \in CounterLengths :
          cph = [pc |-> "crypt",
                 ctx |-> chacha20_init(BytePattern(CHACHA20_KEY_SIZE, 7),
                                       BytePattern(CHACHA20_NONCE_SIZE, 11),
                                       counter),
                 input |-> BytePattern(n, 3), counter |-> counter,
                 used |-> <<>>, result |-> "none"]

NextCounter ==
    \/ ChaCha20CryptIterate
    \/ ChaCha20CryptReturn

SpecCounter == InitCounter /\ [][NextCounter]_vars

\* C15: chacha20_crypt XORs no two keystream blocks generated from the same
\* counter value into its output, and a call whose payload needs so many
\* blocks that the counter returns to 0 returns an error.
C15_NoCounterReuse ==
    /\ \A i, j \in DOMAIN cph.used : i # j => cph.used[i] # cph.used[j]
    /\ (cph.pc = "crypt returned"
          /\ cph.counter[1] = 65535
          /\ (Len(cph.input) + CHACHA20_BLOCK_SIZE - 1) \div CHACHA20_BLOCK_SIZE
               >= 65536 - cph.counter[2])
          => cph.result = "CHACHA20_ERROR_INPUT"

\* C15's case: a call that started at counter 0xFFFFFFFE has XORed one
\* block and returned the error at the byte that needed the next one
C15_Witness ==
    /\ cph.pc = "crypt returned"
    /\ cph.counter = <<65535, 65534>>
    /\ cph.used = <<<<65535, 65534>>>>
    /\ Len(cph.ctx.output) = CHACHA20_BLOCK_SIZE
    /\ cph.result = "CHACHA20_ERROR_INPUT"

\* C16: for every algorithm of compress_data and every cipher's encrypt
\* entry point, a zero-length input, no allocation failing, is either
\* rejected with GSEA_ERROR_ARGS or accepted with a header-only container
\* that decodes back to zero length; no other error code is returned.
C16_EmptyInput ==
    (mem.pc = "returned" /\ mem.input = <<>> /\ mem.fail = "none"
        /\ mem.fn \in {"compress_data", "encrypt"}) =>
        \/ mem.result = GSEA_ERROR_ARGS
        \/ /\ mem.result = GSEA_SUCCESS
           /\ mem.fn = "compress_data" =>
                 decompress_data(mem.bytes, mem.algorithm)
                     = Returned(GSEA_SUCCESS, <<>>)
           /\ mem.fn = "encrypt" =>
                 /\ Len(mem.bytes) = EncryptedSize(mem.cipher, 0)
                 /\ \A malloc0 \in MallocZeroOutcomes :
                       \E r \in {Decrypt(mem.cipher, mem.bytes, mem.key, malloc0)} :
                          r.result = GSEA_SUCCESS /\ r.data = <<>>

(***************************************************************************)
(* SpecRuns: a file of one repeated byte is Huffman-compressed, and the    *)
(* container decompressed; the counts are small, or about 2^16 or 2^32     *)
(***************************************************************************)
RunCounts ==
    {<<0, 1>>, <<0, 2>>, <<0, 255>>, <<0, 65535>>, <<1, 0>>, <<65535, 65535>>,
     <<65536, 0>>, <<65536, 1>>}

InitRuns ==
    /\ Lz77Idle /\ RleIdle /\ LzwIdle /\ CphIdle /\ PipeIdle /\ MemIdle /\ DirIdle
    /\ \E v \in 0..(HUFFMAN_SYMBOLS - 1), n \in RunCounts :
          huff = [IdleHuff EXCEPT !.pc = "run call",
                                  !.input = [symbol |-> v, count |-> n]]

NextRuns ==
    \/ HuffmanRunCompress
    \/ HuffmanRunSerialize
    \/ HuffmanRunDeserialize
    \/ HuffmanRunDecompress

SpecRuns == InitRuns /\ [][NextRuns]_vars

\* C17: for every byte v and every n >= 1, Huffman-compressing n copies of
\* v succeeds with a 1-byte payload holding v and a frequency table with
\* exactly one non-zero entry, and decompressing the serialized container
\* returns n copies of v.
C17_SingleSymbolRun ==
    /\ huff.pc \in {"run compressed", "run done"} =>
          /\ huff.compressed.data = <<huff.input.symbol>>
          /\ Cardinality({s \in 0..(HUFFMAN_SYMBOLS - 1) :
                             huff.compressed.freq_table[s] # <<0, 0>>}) = 1
    /\ huff.pc = "run done" =>
          /\ huff.result = GSEA_SUCCESS
          /\ huff.output = huff.input

\* C18: when lz77_compress, lz77_decompress, compress_data, decompress_data
\* or a cipher's encrypt or decrypt returns an error, be it because an
\* allocation failed, the output buffer's data pointer is NULL or what it
\* was before the call, and where it is not NULL the block is still
\* allocated; the cleanup of process_file_operations frees no block twice.
C18_ErrorLeavesNullOrPreCall ==
    /\ (mem.pc = "returned" /\ mem.result # GSEA_SUCCESS) =>
          /\ mem.output.data \in {0, mem.pre.data}
          /\ mem.output.data # 0 => mem.heap[mem.output.data] = "live"
    /\ \A b \in DOMAIN mem.heap : mem.heap[b] # "double free"

\* C18's case: the realloc of write_token failed in an lz77_compress call
\* whose container outgrew its first buffer; the block was freed, the call
\* returned an error and cleanup has run
C18_Witness ==
    /\ mem.pc = "cleaned"
    /\ mem.fn = "lz77_compress"
    /\ mem.fail = "realloc"
    /\ mem.result = GSEA_ERROR_COMPRESSION
    /\ mem.heap = <<"released">>

(***************************************************************************)
(* SpecDirectory: process_directory on a directory of up to DirMaxFiles    *)
(* files with one or two threads configured; each thread that can take a   *)
(* step is scheduled in the end                                            *)
(***************************************************************************)
InitDirectory ==
    /\ Lz77Idle /\ HuffIdle /\ RleIdle /\ LzwIdle /\ CphIdle /\ PipeIdle /\ MemIdle
    /\ \E file_count \in 0..DirMaxFiles, num_threads \in Workers :
          dir = [IdleDir EXCEPT !.pc = "listed", !.file_count = file_count,
                                !.num_threads = num_threads,
                                !.results = [f \in 1..file_count |-> "listed"]]

MainStep ==
    \/ DirCreatePool
    \/ DirSubmit
    \/ DirWait
    \/ DirDestroy
    \/ DirReturn

WorkerStep(w) ==
    \/ WorkerTake(w)
    \/ WorkerRun(w)
    \/ WorkerCount(w)
    \/ WorkerFinish(w)

NextDirectory ==
    \/ MainStep
    \/ \E w \in Workers : WorkerStep(w)

SpecDirectory ==
    /\ InitDirectory
    /\ [][NextDirectory]_vars
    /\ WF_vars(MainStep)
    /\ \A w \in Workers : WF_vars(WorkerStep(w))

Lz77DecompressRun(t) ==
    /\ lz77c[t].pc = "done"
    /\ lz77c[t].result = GSEA_SUCCESS
    /\ lz77d[t].pc = "idle"
    /\ lz77d' = [lz77d EXCEPT
                    ![t] = Lz77DecompressLoop(Lz77DBeginFrame(
                               [@ EXCEPT !.input = lz77c[t].output]))]
    /\ UNCHANGED <<lz77c, hash_table, hash_owner, huff, rle, lzw, cph, pipe, mem, dir>>

NextShared ==
    \E t \in Workers :
        \/ Lz77CompressBegin(t)
        \/ Lz77Probe(t)
        \/ Lz77Emit(t)
        \/ Lz77CompressReturn(t)
        \/ Lz77DecompressRun(t)

SpecShared == InitWorkers /\ [][NextShared]_vars

\* C20: whatever the interleaving of the lz77_compress calls on the shared
\* hash index, memset included, lz77_decompress succeeds on the tokens each
\* call has emitted and returns that call's own input.
C20_SharedIndexStillDecodes ==
    \A t \in Workers :
        lz77d[t].pc = "done"
            => /\ lz77d[t].result = GSEA_SUCCESS
               /\ lz77d[t].output = lz77c[t].input

\* C20's case: a call read a bucket another call wrote last, took the
\* match, returned bytes it would not return alone, and they were decoded
C20_Witness ==
    \E t \in Workers :
        /\ lz77d[t].pc = "done"
        /\ lz77c[t].output # lz77_compress(lz77c[t].input).output
        /\ \E k \in 0..(Len(lz77c[t].output) \div 4 - 3) :
              At(lz77c[t].output, 8 + 4 * k + 2) > 0

(***************************************************************************)
(* SpecRlePayloads: rle_decompress on every payload of up to               *)
(* RlePayloadMaxLen bytes with every declared size up to RleDeclaredMax    *)
(***************************************************************************)
RlePayloadBytes == 0..2

InitRlePayloads ==
    /\ \E data \in SeqsUpTo(RlePayloadBytes, RlePayloadMaxLen),
          original_size \in 0..RleDeclaredMax :
          rle = [IdleRle EXCEPT !.pc = "engine call", !.data = data,
                                !.size = Len(data),
                                !.original_size = original_size]
    /\ Lz77Idle /\ HuffIdle /\ LzwIdle /\ CphIdle /\ PipeIdle /\ MemIdle /\ DirIdle

NextRlePayloads ==
    \/ RleEngineBegin
    \/ RleEnginePair
    \/ RleEngineReturn

SpecRlePayloads == InitRlePayloads /\ [][NextRlePayloads]_vars

\* the bytes the first k pairs of a payload stand for
RlePairsLength(data, k) ==
    SumOver([j \in 1..k |-> data[2 * j - 1]], 1..k)

\* a payload ends inside a pair, or one of its runs passes the declared
\* size, or its runs together do not make the declared size
RlePayloadCorrupt(data, original_size) ==
    \/ Len(data) % 2 = 1
    \/ \E k \in 1..(Len(data) \div 2) : RlePairsLength(data, k) > original_size
    \/ RlePairsLength(data, Len(data) \div 2) # original_size

\* C21: rle_decompress returns RLE_ERROR_CORRUPT for every payload of odd
\* length, every payload one of whose runs passes the declared original
\* size and every payload whose decoded length differs from the declared
\* size, and returns success for no such payload.
C21_CorruptPayloadsRejected ==
    (rle.pc = "engine returned" /\ RlePayloadCorrupt(rle.data, rle.original_size))
        => rle.result = RLE_ERROR_CORRUPT

(***************************************************************************)
(* SpecLz77Streams: lz77_decompress on a header declaring up to            *)
(* StreamDeclaredMax bytes followed by up to StreamMaxTokens tokens of any *)
(* content and by the first bytes of one more                              *)
(***************************************************************************)
StreamTokens ==
    {TokenBytes(offset, length, next_char) :
        offset \in 0..2, length \in 0..2, next_char \in Alphabet}

StreamTails == {SubSeq(<<0, 1, 1>>, 1, n) : n \in 0..3}

RECURSIVE Flatten(_)
Flatten(ss) == IF ss = <<>> THEN <<>> ELSE Head(ss) \o Flatten(Tail(ss))

StreamInputs ==
    {BigEndian(orig_size, 8) \o Flatten(tokens) \o tail :
        orig_size \in 0..StreamDeclaredMax,
        tokens \in SeqsUpTo(StreamTokens, StreamMaxTokens),
        tail \in StreamTails}

\* lz77_decompress is called on a buffer of the caller (lz77.c:189-218)
Lz77DecompressStream(t) ==
    /\ lz77d[t].pc = "call"
    /\ lz77d' = [lz77d EXCEPT ![t] = Lz77DBeginFrame(@)]
    /\ UNCHANGED <<lz77c, hash_table, hash_owner, huff, rle, lzw, cph, pipe, mem, dir>>

InitLz77Streams ==
    /\ \E c \in StreamInputs :
          lz77d = [t \in Workers |->
                      IF t = 1 THEN [IdleDecompress EXCEPT !.pc = "call", !.input = c]
                      ELSE IdleDecompress]
    /\ lz77c = [t \in Workers |-> IdleCompress]
    /\ hash_table = ZeroedTable
    /\ hash_owner = NoOwner
    /\ HuffIdle /\ RleIdle /\ LzwIdle /\ CphIdle /\ PipeIdle /\ MemIdle /\ DirIdle

NextLz77Streams ==
    \E t \in Workers :
        \/ Lz77DecompressStream(t)
        \/ Lz77DecompressToken(t)
        \/ Lz77DecompressReturn(t)

SpecLz77Streams == InitLz77Streams /\ [][NextLz77Streams]_vars

\* the decoder stands before a token of which fewer than 4 bytes are left,
\* or before a back-reference that reaches further back than the output
\* goes, or after the last token with an output that has not the declared
\* length
Lz77StreamCorruptHere(f) ==
    /\ f.pc = "loop"
    /\ IF f.pos < Len(f.input) /\ Len(f.output) < f.orig_size
       THEN \/ Len(f.input) - f.pos < 4
            \/ /\ At(f.input, f.pos) * 256 + At(f.input, f.pos + 1) > Len(f.output)
               /\ At(f.input, f.pos + 2) > 0
       ELSE Len(f.output) # f.orig_size

LastToken(out) ==
    [offset |-> out[Len(out) - 3] * 256 + out[Len(out) - 2],
     length |-> out[Len(out) - 1],
     next_char |-> out[Len(out)]]

\* a token written at position p of data, and the position after it
TokenInBounds(data, p, token, next_pos) ==
    \/ /\ token.offset = 0
       /\ token.length = 0
       /\ token.next_char = At(data, p)
       /\ next_pos = p + 1
    \/ /\ token.offset >= 1
       /\ token.offset <= Min(p, WINDOW_SIZE)
       /\ token.length >= MIN_MATCH_LENGTH
       /\ token.length <= LOOKAHEAD_SIZE
       /\ p + token.length <= Len(data)
       /\ next_pos = p + token.length + 1

\* C23: every token lz77_compress writes at position p is a pure literal
\* (0, 0, data[p]) or a back-reference with 1 <= offset <= min(p, 4096),
\* 3 <= length <= 18 and p + length <= input size, and the encoder advances
\* by length + 1; no match of length 1 or 2 is written.
C23_TokensInBounds ==
    [][\A t \in Workers :
          (lz77c[t].pc = "probed" /\ lz77c'[t] # lz77c[t])
             => /\ Len(lz77c'[t].output) = Len(lz77c[t].output) + 4
                /\ TokenInBounds(lz77c[t].input, lz77c[t].pos,
                                 LastToken(lz77c'[t].output), lz77c'[t].pos)]_vars

\* C23's case: a back-reference of the longest length, 18, has been written
\* in an input longer than the window
C23_Witness ==
    /\ lz77c[1].pc = "loop"
    /\ Len(lz77c[1].input) > WINDOW_SIZE
    /\ Len(lz77c[1].output) >= 12
    /\ LastToken(lz77c[1].output).length = LOOKAHEAD_SIZE
    /\ LastToken(lz77c[1].output).offset >= 1

(***************************************************************************)
(* SpecLz77Wrap: one lz77_compress call on an input that reaches past      *)
(* position 65,535, the largest value a bucket of the uint16_t hash_table  *)
(* holds (lz77.c:48)                                                       *)
(***************************************************************************)
Lz77WrapInputs ==
    {Rep(0, HASH_TABLE_SIZE + LOOKAHEAD_SIZE + k) : k \in 0..Lz77WrapPad}

InitLz77Wrap ==
    /\ \E b \in Lz77WrapInputs :
          lz77c = [t \in Workers |->
                      IF t = 1 THEN [IdleCompress EXCEPT !.pc = "call", !.input = b]
                      ELSE IdleCompress]
    /\ lz77d = [t \in Workers |-> IdleDecompress]
    /\ hash_table = ZeroedTable
    /\ hash_owner = NoOwner
    /\ HuffIdle /\ RleIdle /\ LzwIdle /\ CphIdle /\ PipeIdle /\ MemIdle /\ DirIdle

NextLz77Wrap ==
    \E t \in Workers :
        \/ Lz77CompressBegin(t)
        \/ Lz77Probe(t)
        \/ Lz77Emit(t)
        \/ Lz77CompressReturn(t)

SpecLz77Wrap == InitLz77Wrap /\ [][NextLz77Wrap]_vars

\* C24: within one lz77_compress call, once find_longest_match has probed
\* position p, the bucket of p's hash holds p, whatever the length of the
\* input, positions of 65,536 and above included.
C24_BucketHoldsPosition ==
    [][\A t \in Workers :
          (lz77c[t].pc = "probed" /\ lz77c[t].probed /\ lz77c'[t].pc = "loop")
             => HashRead(hash_table', lz77c[t].hash) = lz77c[t].pos]_vars

(***************************************************************************)
(* SpecPool: the pool of process_directory with up to PoolMaxFiles tasks of*)
(* the main thread, which then calls thread_pool_wait and                  *)
(* thread_pool_destroy, and up to PoolMaxExtra tasks a second thread adds  *)
(* at any moment of the pool's life; the main thread and each worker are   *)
(* scheduled in the end, every task returns                                *)
(***************************************************************************)
InitPool ==
    /\ Lz77Idle /\ HuffIdle /\ RleIdle /\ LzwIdle /\ CphIdle /\ PipeIdle /\ MemIdle
    /\ \E file_count \in 1..PoolMaxFiles, num_threads \in Workers,
          extra \in 0..PoolMaxExtra :
          dir = [IdleDir EXCEPT !.pc = "listed", !.file_count = file_count,
                                !.num_threads = num_threads,
                                !.extra_left = extra,
                                !.results = [n \in PoolTasks |-> "listed"]]

NextPool ==
    \/ MainStep
    \/ \E w \in Workers : WorkerStep(w)
    \/ PoolAdd

SpecPool ==
    /\ InitPool
    /\ [][NextPool]_vars
    /\ WF_vars(MainStep)
    /\ \A w \in Workers : WF_vars(WorkerStep(w))

\* the pool has been shut down and every worker has left
PoolStopped ==
    /\ dir.pc \in {"join", "returned"}
    /\ \A w \in Workers : dir.worker[w] \in {"none", "exited"}

\* C25: the tasks are dequeued in the order thread_pool_add_task accepted
\* them, no task is run twice, none is run that was not dequeued, and when
\* the workers have left every accepted task has been run once.
C25_AcceptedTasksRunOnceInOrder ==
    /\ Len(dir.taken) <= Len(dir.accepted)
    /\ dir.taken = SubSeq(dir.accepted, 1, Len(dir.taken))
    /\ \A n \in PoolTasks :
          /\ dir.runs[n] <= 1
          /\ dir.runs[n] = 1 => \E k \in 1..Len(dir.taken) : dir.taken[k] = n
    /\ PoolStopped => \A k \in 1..Len(dir.accepted) : dir.runs[dir.accepted[k]] = 1

\* C25's case: the tasks of the two producers were accepted interleaved,
\* and all four have been dequeued in that order and run
C25_Witness ==
    /\ PoolStopped
    /\ dir.accepted = <<1, 5, 2, 4>>
    /\ dir.taken = dir.accepted
    /\ \A n \in {1, 2, 4, 5} : dir.runs[n] = 1

\* C26: thread_pool_wait returns only with the queue empty and no task
\* being executed, and a call of thread_pool_wait returns in the end: the
\* signal on idle_cond is not missed.
C26_WaitReturnsWhenIdle ==
    /\ [][(dir.pc \in {"submit", "wait"} /\ dir'.pc = "destroy")
             => (dir'.count = 0 /\ dir'.active_threads = 0)]_vars
    /\ ((dir.pc = "submit" /\ dir.i = dir.file_count) \/ dir.pc \in {"wait", "waiting"})
          ~> (dir.pc = "destroy")

\* C26's case: the caller of thread_pool_wait had to wait and has been
\* woken by the worker that finished the last of four tasks
C26_Witness ==
    /\ dir.pc = "wait"
    /\ Len(dir.taken) = PoolMaxFiles + PoolMaxExtra
    /\ dir.count = 0
    /\ dir.active_threads = 0

\* C27: once shutdown is set thread_pool_add_task refuses the task and
\* leaves the queue as it is; a worker leaves only with shutdown set and
\* the queue empty; every task accepted has been run when
\* thread_pool_destroy is over; and after shutdown is set every worker
\* leaves and the joins of thread_pool_destroy complete.
C27_ShutdownProtocol ==
    /\ [][(dir.shutdown /\ dir'.extra_left < dir.extra_left)
             => /\ (DirMaxFiles + dir.extra_left) \in dir'.refused
                /\ dir'.head = dir.head /\ dir'.tail = dir.tail
                /\ dir'.next = dir.next /\ dir'.count = dir.count
                /\ dir'.accepted = dir.accepted]_vars
    /\ [][\A w \in Workers :
             (dir.worker[w] # "exited" /\ dir'.worker[w] = "exited")
                => (dir.shutdown /\ dir.count = 0)]_vars
    /\ [](dir.pc = "returned"
            => \A k \in 1..Len(dir.accepted) : dir.runs[dir.accepted[k]] = 1)
    /\ dir.shutdown ~> (dir.pc = "returned")

\* C27's case: a task added before shutdown was run, one added after it was
\* refused, and thread_pool_destroy is over
C27_Witness ==
    /\ dir.pc = "returned"
    /\ dir.refused = {DirMaxFiles + 1}
    /\ dir.runs[DirMaxFiles + 2] = 1
    /\ dir.results[DirMaxFiles + 1] = "listed"

(***************************************************************************)
(* SpecDirectoryFaults: process_directory when malloc may return NULL in   *)
(* the submission loop; the two halves of each "error_count++" are         *)
(* separate steps, those of a worker under error_mutex                     *)
(***************************************************************************)
NextDirectoryFaults ==
    \/ DirCreatePool
    \/ DirSubmit
    \/ DirSubmitFailed
    \/ DirCountStore
    \/ DirWait
    \/ DirDestroy
    \/ DirReturn
    \/ \E w \in Workers :
          \/ WorkerTake(w)
          \/ WorkerRun(w)
          \/ WorkerCountLoad(w)
          \/ WorkerCountStore(w)
          \/ WorkerFinish(w)

SpecDirectoryFaults == InitDirectory /\ [][NextDirectoryFaults]_vars

\* the files whose task failed, and those whose task was not created or
\* not submitted
DirFailures ==
    Cardinality({f \in 1..dir.file_count :
                    \/ f \in dir.skipped
                    \/ dir.runs[f] = 1 /\ dir.results[f] # GSEA_SUCCESS})

\* C29: no increment of error_count is lost: once thread_pool_wait has
\* returned, error_count is the number of files whose task failed plus the
\* number of files whose task could not be created or submitted.
C29_NoLostErrorCount ==
    dir.pc \in {"destroy", "join", "returned"} => dir.error_count = DirFailures

\* the stage an operation bit stands for
StageOf(op) ==
    CASE op = "OP_COMPRESS" -> "compress"
      [] op = "OP_DECOMPRESS" -> "decompress"
      [] op = "OP_ENCRYPT" -> "encrypt"
      [] op = "OP_DECRYPT" -> "decrypt"

\* C28: when process_file_operations returns success on an operation set
\* the validator accepts, each requested operation was applied exactly
\* once, no other stage ran, and the file written is what the last of them
\* returned.
C28_EveryOperationApplied ==
    (pipe.pc = "returned" /\ pipe.result = GSEA_SUCCESS)
        => /\ \A op \in pipe.operations :
                 Cardinality({k \in 1..Len(pipe.calls) :
                                 pipe.calls[k].stage = StageOf(op)}) = 1
           /\ Len(pipe.calls) = Cardinality(pipe.operations)
           /\ pipe.writes = <<pipe.calls[Len(pipe.calls)].output>>


(***************************************************************************)
(* SpecLzwCodes: lzw_decompress on a code sequence and a declared size as  *)
(* lzw_deserialize hands them over, whatever wrote the container           *)
(***************************************************************************)
\* codes of the given sequences: literals, the reserved code 256 and the
\* first codes the decoder assigns
LzwGivenCodes ==
    Alphabet \cup {LZW_INIT_DICT_SIZE + k : k \in 0..LzwGivenExtra}

\* the codes lzw_compress returns for input b (b not empty)
LzwCodesOf(b) ==
    LET f == LzwCompressBeginFrame([IdleLzw EXCEPT !.input = b])
    IN  LzwCompressReturnFrame(LzwCompressBytes(f, Len(b) - 1)).codes

\* the frame of lzw_decompress at its entry; stray is the byte a read through
\* the unassigned dict[256] would yield
LzwGiven(codes, size, stray) ==
    [IdleLzw EXCEPT !.pc = "deserialized", !.dcodes = codes,
                    !.code_count = Len(codes), !.original_size = size,
                    !.stray = stray]

InitLzwCodes ==
    /\ \/ \E codes \in NonEmptySeqsUpTo(LzwGivenCodes, LzwGivenMaxLen),
             size \in 1..LzwGivenMaxSize, stray \in Alphabet :
             lzw = LzwGiven(codes, size, stray)
       \/ \E tail \in NonEmptySeqsUpTo({0}, LzwMaxTail) :
             lzw = LzwGiven(LzwCodesOf(LzwFillingInput(tail)),
                            Len(LzwFillingInput(tail)), 0)
    /\ Lz77Idle /\ HuffIdle /\ RleIdle /\ CphIdle /\ PipeIdle /\ MemIdle /\ DirIdle

NextLzwCodes == LzwDecompress

SpecLzwCodes == InitLzwCodes /\ [][NextLzwCodes]_vars

\* C30: whatever code sequence lzw_decompress is given (with the reserved
\* code 256 in it, or going on after the dictionary is full), it has read,
\* copied from and freed only dictionary entries that were assigned and not
\* yet freed when its call is over.
C30_OnlyLiveEntriesUsed ==
    lzw.pc \in {"done", "aborted"} => ~lzw.misuse

====
